---- MODULE Spec2Model ----
(***************************************************************************)
(* TaskFlow: task lifecycle engine, grpc_task streaming handler and the    *)
(* per-task progress log with its subscriber.                              *)
(*                                                                         *)
(* Spec     one task from CreateTask through the broker to the grpc_task   *)
(*          handler (ProcessTask / ExecuteTask / handleError).             *)
(* SpecLog  one task's progress log (Publisher) read by one Subscriber     *)
(*          goroutine and its consumer.                                    *)
(***************************************************************************)
EXTENDS Integers, Sequences, FiniteSets, TLC

(* ---------------------------- bounds ---------------------------------- *)
\* largest max_retries a create request carries (requests also carry 0 and -1)
MaxReqRetries == 2
\* most non-terminal messages the remote sends on one stream
MaxMsgs == 3
\* most entries ever appended to the task's progress log
MaxPub == 3
\* configured progress.max_len of the log
MaxLen == 1
\* most entries approximate trimming leaves above max_len: the store trims whole
\* nodes only, so up to one node's entries less one stay
Epsilon == 1
\* largest explicit start id a subscription is opened with
MaxStartID == 2
\* most progress entries one task's worker publishes before its completion entry
MaxFanPub == 1
\* most create requests the task API receives
MaxCreates == 3
\* most calls of IncrementRetry on one task entity
MaxIncrements == 5
\* most clients the client manager creates
MaxClients == 4
MaxTasks == 2
MaxRegisters == 3
MaxBurst == 11
MaxServices == 2

(* ------------------------ program constants --------------------------- *)
\* entity.go NewTask: MaxRetries: 3
DefaultMaxRetries == 3
\* subscriber.go Subscribe: make(chan SubscribeResult, 10)
ChanCap == 10
\* subscriber.go Subscribe: XReadArgs.Count
ReadCount == 10
\* the start id "$" (only new entries); log ids are the naturals from 1, "0" is 0
Dollar == -1
\* the start id "-" (the XRANGE name of the smallest id)
Dash == -2
\* time.Millisecond, durations being counted in microseconds
Millisecond == 1000

VARIABLES
    \* ---- broker's view of the task and the service's task entity
    taskState,      \* "none" | "scheduled" | "pending" | "active" | "retry" | "archived" | "completed"
    cmdMaxRetries,  \* max_retries of the create request (CreateTaskCommand.MaxRetries)
    taskMaxRetries, \* Task.MaxRetries of the entity built by CreateTask
    brokerMaxRetry, \* max_retry the broker holds for the task (asynq.MaxRetry option)
    retried,        \* broker's retried counter
    invocations,    \* number of times the handler was invoked for the task
    orphans,        \* handler bodies still running after the broker gave up waiting
    firstRet,       \* error the broker processed for the first invocation
    lastErr,        \* kind of the error the broker processed for the latest finished invocation
    \* ---- one invocation of the grpc_task handler
    hpc,            \* "idle" | "start" | "recv" | "returned"
    ctx,            \* handler context: "live" | "cancelled" | "deadline"
    payload,        \* "ok" | "malformed" | "noservice" | "unknownservice" | "baddata"
    result,         \* ExecuteTask's result variable: "nil" or a TaskStatus
    resultsSeen,    \* result messages received on the current stream
    progressSeen,   \* progress messages received on the current stream
    msgsRead,       \* non-terminal messages read from the current stream
    streamEnd,      \* how the current invocation's remote call ended
    hret,           \* error value the handler returned
    \* ---- progress log (Redis stream progress:<task_id>)
    log,            \* sequence of entries, oldest first
    nextId,         \* id the next XADD assigns
    hasTTL,         \* the key progress:<task_id> carries an expiry
    published,      \* every entry ever appended, in the order of the appends
    \* ---- Subscribe goroutine, its channel and its consumer
    spc,            \* "off" | "check" | "xread" | "batch" | "senderr" | "closed"
    lastID,         \* Go variable lastID: Dollar for "$", or a log id
    readFrom,       \* id the pending XREAD resolved lastID to
    batch,          \* messages of the current XREAD reply not yet handled
    ch,             \* buffered channel contents
    yielded,        \* every value ever sent on the channel, in order
    subCtx,         \* subscriber context: "live" | "cancelled"
    sentAfterCancel,\* entries sent on the channel after subCtx was cancelled
    readErr,        \* TRUE once XREAD failed with an error other than timeout or cancellation
    received,       \* what the consumer has taken from the channel
    subStart,       \* start id the subscription was opened with
    lastAtStart,    \* last id of the log when Subscribe was called
    badStartID,     \* TRUE once XREAD rejected the start id as not a stream id
    \* ---- ProgressHandler.StreamProgress (single-task event stream)
    ssePc,          \* "off" | "stream" | "end"
    includeHistory, \* query parameter history=true
    frames,         \* event-stream frames written to the response, in order
    \* ---- several readers: StreamMultipleProgress, or independent subscribers
    tlog,           \* task id -> progress log of that task
    rTask,          \* reader -> task id it subscribed to
    rSpc,           \* reader -> position of its Subscribe goroutine
    rLastID,        \* reader -> its lastID
    rReadFrom,      \* reader -> id its pending XREAD was issued with
    rBatch,         \* reader -> messages of its XREAD reply not yet handled
    rCh,            \* reader -> contents of its channel
    rYielded,       \* reader -> every value it sent on its channel
    fanCtx,         \* the context the readers share: "live" | "cancelled"
    merged,         \* the merged channel of tagged results
    activeTasks,    \* Go variable activeTasks
    mPc,            \* "off" | "open" | "closed"
    mFrames,        \* frames written to the merged response
    clientGone,     \* TRUE once the client of the merged stream disconnected
    fwd,            \* reader -> its forwarding goroutine: "off" | "run" | "done"
    \* ---- task API: TaskHandler, Service and the broker's task table
    brokerTasks,    \* tasks visible in the broker: set of [id, key, unique]
    uniqueLocks,    \* uniqueness locks the broker holds: set of [key, id of the holder]
    nextTaskId,     \* stands for uuid.New(): a fresh id per create
    lastResp,       \* the latest request and its response: op, the command's type,
                    \* payload length, key and unique window, whether the key was
                    \* locked, the broker's error (cause), the service's error, the
                    \* HTTP status and code, whether the broker's state changed
    \* ---- a Task entity of the domain layer, driven through its methods
    entity,         \* [Status, MaxRetries, Retried]; Status "none" before NewTask
    \* ---- the timeout of one grpc_task's remote call
    tmo,            \* [pc, payload, service, global, reqMs, bound]: the configured
                    \* values, the request's timeout_ms and the bound of the stream
    \* ---- ClientManager and the clients it created
    mgr,            \* [built, clients, configs, closes, next]: NewClientManager has
                    \* run, the map m.clients as a set of [name, id], the names in
                    \* m.configs, how often Close was called on each client, the
                    \* id of the next client
    \* ---- the worker's middleware chain around one task handler
    mw,             \* [chain, task, retried, depth, ret, waiting, done, running,
                    \* leaked, panicked, crashed, logged, handled, ctxDone, early,
                    \* tmoRet]: early is what the handler had sent to done before
                    \* the timeout's context was done, tmoRet what
                    \* TimeoutMiddleware returned
    \* ---- the worker's handler registry
    reg,            \* [handlers, latest, next, types, got, has]: the map
                    \* Registry.handlers as a set of [type, h], the handler
                    \* registered last for each type (0: none), the number of
                    \* the next handler, and the results of the last Types(),
                    \* Get and HasHandler calls with the registry they saw
    \* ---- the deployed server: configuration, registered handlers, queues
    dep             \* [pc, enabled, services, handlers, mux, pending, done,
                    \* notFound]: where main is, grpc_services.enabled, the number
                    \* of configured services, the registry's types, the types the
                    \* server has a handler for, the tasks enqueued as [type,
                    \* queue], the tasks processed and the ones no handler was
                    \* found for

taskVars == <<taskState, cmdMaxRetries, taskMaxRetries, brokerMaxRetry, retried,
              invocations, orphans, firstRet, lastErr>>
handlerVars == <<hpc, ctx, payload, result, resultsSeen, progressSeen, msgsRead,
                 streamEnd, hret>>
logVars == <<log, nextId, hasTTL, published>>
subVars == <<spc, lastID, readFrom, batch, ch, yielded, subCtx, sentAfterCancel,
             readErr, received>>
startVars == <<subStart, lastAtStart, badStartID>>
sseVars == <<ssePc, includeHistory, frames>>
fanVars == <<tlog, rTask, rSpc, rLastID, rReadFrom, rBatch, rCh, rYielded, fanCtx,
             merged, activeTasks, mPc, mFrames, clientGone, fwd>>
apiVars == <<brokerTasks, uniqueLocks, nextTaskId, lastResp>>
entVars == <<entity>>
tmoVars == <<tmo>>
mgrVars == <<mgr>>
mwVars == <<mw>>
regVars == <<reg>>
depVars == <<dep>>
extVars == <<startVars, sseVars, fanVars, apiVars, entVars, tmoVars, mgrVars, mwVars, regVars, depVars>>
\* everything but one subsystem's variables
coreVars == <<taskVars, handlerVars, logVars, subVars, startVars, sseVars, fanVars>>
notApi == <<coreVars, entVars, tmoVars, mgrVars, mwVars, regVars, depVars>>
notEnt == <<coreVars, apiVars, tmoVars, mgrVars, mwVars, regVars, depVars>>
notTmo == <<coreVars, apiVars, entVars, mgrVars, mwVars, regVars, depVars>>
notMgr == <<coreVars, apiVars, entVars, tmoVars, mwVars, regVars, depVars>>
notMw == <<coreVars, apiVars, entVars, tmoVars, mgrVars, regVars, depVars>>
notReg == <<coreVars, apiVars, entVars, tmoVars, mgrVars, mwVars, depVars>>
notDep == <<coreVars, apiVars, entVars, tmoVars, mgrVars, mwVars, regVars>>
vars == <<taskVars, handlerVars, logVars, subVars, extVars>>

(* ------------------------- error values ------------------------------- *)
\* Go error values, by dynamic type:
\*   "nil"        no error
\*   "SkipRetry"  asynq.SkipRetry
\*   "status"     a gRPC status error (possibly wrapped with %w), code = codes.Code
\*   "GRPCError"  *grpc.GRPCError built from a stream error message
\*   "plain"      fmt.Errorf / errors.New without a status inside
\*   "ctx"        context.Canceled / context.DeadlineExceeded
ErrNil == [kind |-> "nil", code |-> "", retryable |-> FALSE]
NoAttempt == [kind |-> "none", code |-> "", retryable |-> FALSE]
SkipRetry == [kind |-> "SkipRetry", code |-> "", retryable |-> FALSE]
StatusErr(c) == [kind |-> "status", code |-> c, retryable |-> FALSE]
GRPCErrorVal(c, r) == [kind |-> "GRPCError", code |-> c, retryable |-> r]
PlainErr(m) == [kind |-> "plain", code |-> m, retryable |-> FALSE]
CtxErr(c) == [kind |-> "ctx", code |-> c, retryable |-> FALSE]

RetryableCodes == {"Unavailable", "ResourceExhausted", "Aborted", "DeadlineExceeded", "Internal"}
NonRetryableCodes == {"InvalidArgument", "NotFound", "AlreadyExists", "PermissionDenied",
                      "FailedPrecondition", "Unimplemented", "Unauthenticated"}
OtherCodes == {"Canceled", "Unknown", "OutOfRange", "DataLoss"}
Codes == RetryableCodes \cup NonRetryableCodes \cup OtherCodes

\* how a remote call ended: "open" (could not be opened), "eof", "errmsg" (an error
\* message, with its retryable flag), "transport" (a status, with its code), "ctxdone"
NoEnd == [how |-> "none", code |-> "", retryable |-> FALSE]
End(h, c, r) == [how |-> h, code |-> c, retryable |-> r]

TaskStatuses == {"COMPLETED", "FAILED", "CANCELLED"}
Payloads == {"ok", "malformed", "noservice", "unknownservice", "baddata"}

isRetryable_NotFoundRetried(code) ==
    IF code \in RetryableCodes THEN TRUE
    ELSE IF code \in (NonRetryableCodes \ {"NotFound"}) THEN FALSE
    ELSE TRUE

\* errors.go isRetryable
isRetryable(code) ==
    IF code \in RetryableCodes THEN TRUE
    ELSE IF code \in NonRetryableCodes THEN FALSE
    ELSE TRUE

\* status.FromError as ConvertError uses it: ok only for an error that is, or
\* wraps, a gRPC status; a *GRPCError has no GRPCStatus method
statusFromError(err) ==
    IF err.kind = "status" THEN [ok |-> TRUE, code |-> err.code]
    ELSE [ok |-> FALSE, code |-> "Unknown"]

\* errors.go ConvertError (err is never nil where handleError calls it)
ConvertError(err) ==
    LET st == statusFromError(err) IN
    IF ~st.ok
    THEN [ok |-> TRUE, Code |-> "UNKNOWN", Retryable |-> TRUE]
    ELSE [ok |-> TRUE, Code |-> st.code, Retryable |-> isRetryable(st.code)]

\* handler.go handleError
handleError(err) ==
    LET grpcErr == ConvertError(err) IN
    IF grpcErr.ok /\ ~grpcErr.Retryable THEN SkipRetry ELSE err

(* --------------------- Task Service and Enqueue ----------------------- *)
\* service.go CreateTask: t.MaxRetries after NewTask and the cmd override
EntityMaxRetries(cmdMax) == IF cmdMax > 0 THEN cmdMax ELSE DefaultMaxRetries

EnqueueMaxRetry_MinusOne(tMax, optMax) ==
    LET m == IF tMax > 0 THEN tMax ELSE optMax IN
    IF m <= 0 THEN 0 ELSE m - 1

EnqueueMaxRetry_PlusOne(tMax, optMax) ==
    LET m == IF tMax > 0 THEN tMax ELSE optMax IN
    IF m < 0 THEN 0 ELSE m + 1

\* client.go Enqueue: the asynq.MaxRetry option (asynq clamps a negative value to 0)
EnqueueMaxRetry(tMax, optMax) ==
    LET m == IF tMax > 0 THEN tMax ELSE optMax IN
    IF m < 0 THEN 0 ELSE m

\* services a client can be made for, and the ids of the clients made
ServiceOrder == <<"s1", "s2", "s3">>
ServiceNames == {ServiceOrder[i] : i \in 1..Len(ServiceOrder)}
ClientIds == 1..MaxClients
\* no ClientManager constructed yet
NoManager == [built |-> FALSE, clients |-> {}, configs |-> {},
              closes |-> [c \in ClientIds |-> 0], next |-> 1]

\* no timeout chosen yet
NoTimeouts == [pc |-> "idle", payload |-> {}, service |-> 0, global |-> 0, reqMs |-> 0,
               bound |-> 0]

\* the types handlers are registered for
RegTypes == {"demo", "grpc_task", "a"}

\* registry.go NewRegistry: an empty map, no call made yet
NoRegistry == [handlers |-> {}, latest |-> [t \in RegTypes |-> 0], next |-> 1,
               types |-> [at |-> 0, val |-> <<>>],
               got |-> [at |-> 0, type |-> "", h |-> 0, ok |-> FALSE],
               has |-> [at |-> 0, type |-> "", ok |-> FALSE]]

\* main before the configuration is loaded
NoDeployment == [pc |-> "start", enabled |-> FALSE, services |-> 0, handlers |-> {},
                 mux |-> {}, pending |-> {}, done |-> {}, notFound |-> {}]

\* the worker before server.Use
NoWorker == [chain |-> <<>>, task |-> "none", retried |-> 0, depth |-> 0,
             ret |-> "none", waiting |-> FALSE, done |-> "none",
             running |-> FALSE, leaked |-> 0, panicked |-> FALSE,
             crashed |-> FALSE, logged |-> 0, handled |-> 0,
             ctxDone |-> FALSE, early |-> "none", tmoRet |-> "none"]

\* no Task entity built yet
NoTask == [Status |-> "none", MaxRetries |-> 0, Retried |-> 0]

\* task ids of the logs several readers follow, and the readers themselves
Tasks == {"a", "b"}
Readers == {1, 2}

\* no HTTP response written yet
NoResp == [op |-> "none", cause |-> "nil", svcErr |-> "nil", status |-> 0, code |-> "",
           key |-> "", unique |-> 0, locked |-> FALSE, type |-> "", payload |-> 0,
           changed |-> FALSE]

Init ==
    /\ taskState = "none"
    /\ cmdMaxRetries = 0
    /\ taskMaxRetries = 0
    /\ brokerMaxRetry = 0
    /\ retried = 0
    /\ invocations = 0
    /\ orphans = 0
    /\ firstRet = NoAttempt
    /\ lastErr = "none"
    /\ hpc = "idle"
    /\ ctx = "live"
    /\ payload = "ok"
    /\ result = "nil"
    /\ resultsSeen = 0
    /\ progressSeen = 0
    /\ msgsRead = 0
    /\ streamEnd = NoEnd
    /\ hret = ErrNil
    /\ log = <<>>
    /\ nextId = 1
    /\ hasTTL = FALSE
    /\ published = <<>>
    /\ spc = "off"
    /\ lastID = Dollar
    /\ readFrom = 0
    /\ batch = <<>>
    /\ ch = <<>>
    /\ yielded = <<>>
    /\ subCtx = "live"
    /\ sentAfterCancel = 0
    /\ readErr = FALSE
    /\ received = <<>>
    /\ subStart = Dollar
    /\ lastAtStart = 0
    /\ badStartID = FALSE
    /\ ssePc = "off"
    /\ includeHistory = FALSE
    /\ frames = <<>>
    /\ tlog = [t \in Tasks |-> <<>>]
    /\ rTask = [r \in Readers |-> "a"]
    /\ rSpc = [r \in Readers |-> "off"]
    /\ rLastID = [r \in Readers |-> Dollar]
    /\ rReadFrom = [r \in Readers |-> 0]
    /\ rBatch = [r \in Readers |-> <<>>]
    /\ rCh = [r \in Readers |-> <<>>]
    /\ rYielded = [r \in Readers |-> <<>>]
    /\ fanCtx = "live"
    /\ merged = <<>>
    /\ activeTasks = 0
    /\ mPc = "off"
    /\ mFrames = <<>>
    /\ clientGone = FALSE
    /\ fwd = [r \in Readers |-> "off"]
    /\ brokerTasks = {}
    /\ uniqueLocks = {}
    /\ nextTaskId = 1
    /\ lastResp = NoResp
    /\ entity = NoTask
    /\ tmo = NoTimeouts
    /\ mgr = NoManager
    /\ mw = NoWorker
    /\ reg = NoRegistry
    /\ dep = NoDeployment

\* service.go CreateTask + client.go Enqueue: a valid grpc_task create request
CreateTask ==
    /\ taskState = "none"
    /\ \E cmdMax \in -1..MaxReqRetries,
          pl \in Payloads,
          scheduled \in BOOLEAN :
        LET tMax == EntityMaxRetries(cmdMax) IN
        /\ cmdMaxRetries' = cmdMax
        /\ taskMaxRetries' = tMax
        /\ brokerMaxRetry' = EnqueueMaxRetry(tMax, tMax)
        /\ payload' = pl
        /\ taskState' = IF scheduled THEN "scheduled" ELSE "pending"
    /\ UNCHANGED <<retried, invocations, orphans, firstRet, lastErr>>
    /\ UNCHANGED <<hpc, ctx, result, resultsSeen, progressSeen, msgsRead, streamEnd, hret>>
    /\ UNCHANGED <<logVars, subVars, extVars>>

(* ------------------------------ broker -------------------------------- *)
\* what the broker does with a failed attempt: archive when retries are
\* exhausted or the error is SkipRetry, otherwise count the retry
FailedState(err) ==
    IF retried >= brokerMaxRetry \/ err = SkipRetry THEN "archived" ELSE "retry"
FailedRetried(err) ==
    IF retried >= brokerMaxRetry \/ err = SkipRetry THEN retried ELSE retried + 1

\* the context and locals of a handler invocation the broker no longer waits for
FrameGone ==
    /\ ctx' = "live"
    /\ result' = "nil"
    /\ resultsSeen' = 0
    /\ progressSeen' = 0
    /\ msgsRead' = 0
    /\ streamEnd' = NoEnd
    /\ hret' = ErrNil

\* scheduled or retry task becomes due
BrokerForward ==
    /\ taskState \in {"scheduled", "retry"}
    /\ taskState' = "pending"
    /\ UNCHANGED <<cmdMaxRetries, taskMaxRetries, brokerMaxRetry, retried, invocations,
                   orphans, firstRet, lastErr>>
    /\ UNCHANGED <<handlerVars, logVars, subVars, extVars>>

\* a worker takes the pending task and invokes Recovery(Logging(ProcessTask))
BrokerDispatch ==
    /\ taskState = "pending"
    /\ hpc = "idle"
    /\ taskState' = "active"
    /\ invocations' = invocations + 1
    /\ hpc' = "start"
    /\ UNCHANGED <<ctx, result, resultsSeen, progressSeen, msgsRead, streamEnd, hret>>
    /\ UNCHANGED <<cmdMaxRetries, taskMaxRetries, brokerMaxRetry, retried, orphans,
                   firstRet, lastErr, payload>>
    /\ UNCHANGED <<logVars, subVars, extVars>>

\* the handler returned: nil completes the task, an error retries or archives it
BrokerHandleResult ==
    /\ taskState = "active"
    /\ hpc = "returned"
    /\ hpc' = "idle"
    /\ IF hret = ErrNil
       THEN /\ taskState' = "completed"
            /\ retried' = retried
       ELSE /\ taskState' = FailedState(hret)
            /\ retried' = FailedRetried(hret)
    /\ firstRet' = IF invocations = 1 THEN hret ELSE firstRet
    /\ lastErr' = hret.kind
    /\ FrameGone
    /\ UNCHANGED <<cmdMaxRetries, taskMaxRetries, brokerMaxRetry, invocations, orphans>>
    /\ UNCHANGED payload
    /\ UNCHANGED <<logVars, subVars, extVars>>

\* the handler context is done before the broker has taken the handler's
\* result: the attempt fails with ctx.Err() and the handler body is left running
BrokerCtxDone ==
    /\ taskState = "active"
    /\ ctx # "live"
    /\ hpc \in {"start", "recv", "returned"}
    /\ LET err == CtxErr(ctx) IN
        /\ taskState' = FailedState(err)
        /\ retried' = FailedRetried(err)
        /\ firstRet' = IF invocations = 1 THEN err ELSE firstRet
        /\ lastErr' = err.kind
    /\ orphans' = IF hpc = "returned" THEN orphans ELSE orphans + 1
    /\ hpc' = "idle"
    /\ FrameGone
    /\ UNCHANGED <<cmdMaxRetries, taskMaxRetries, brokerMaxRetry, invocations>>
    /\ UNCHANGED payload
    /\ UNCHANGED <<logVars, subVars, extVars>>

\* an abandoned handler body observes its cancelled context and returns
OrphanReturn ==
    /\ orphans > 0
    /\ orphans' = orphans - 1
    /\ UNCHANGED <<taskState, cmdMaxRetries, taskMaxRetries, brokerMaxRetry, retried,
                   invocations, firstRet, lastErr>>
    /\ UNCHANGED <<handlerVars, logVars, subVars, extVars>>

\* client.go CancelTask: inspector.CancelProcessing cancels the handler context
CancelTask ==
    /\ taskState = "active"
    /\ ctx = "live"
    /\ ctx' = "cancelled"
    /\ UNCHANGED <<taskVars, logVars, subVars, extVars>>
    /\ UNCHANGED <<hpc, payload, result, resultsSeen, progressSeen, msgsRead, streamEnd, hret>>

\* client.go Enqueue asynq.Timeout(opt.Timeout): the task's deadline passes
TaskTimeout ==
    /\ taskState = "active"
    /\ ctx = "live"
    /\ ctx' = "deadline"
    /\ UNCHANGED <<taskVars, logVars, subVars, extVars>>
    /\ UNCHANGED <<hpc, payload, result, resultsSeen, progressSeen, msgsRead, streamEnd, hret>>

(* ------------------------- grpc_task handler -------------------------- *)
\* the handler returns err to the middleware chain
Return(err, end) ==
    /\ hpc' = "returned"
    /\ hret' = err
    /\ streamEnd' = end

\* status error with which gRPC ends a call whose context is done
CtxStatus == IF ctx = "cancelled" THEN StatusErr("Canceled") ELSE StatusErr("DeadlineExceeded")

ProcessTaskReject_Retryable ==
    /\ hpc = "start"
    /\ payload # "ok"
    /\ Return(PlainErr("failed to get client"), NoEnd)
    /\ UNCHANGED <<taskVars, logVars, subVars, extVars>>
    /\ UNCHANGED <<ctx, payload, result, resultsSeen, progressSeen, msgsRead>>

\* handler.go ProcessTask steps 1-6: a payload that cannot be used is SkipRetry
ProcessTaskReject ==
    /\ hpc = "start"
    /\ payload # "ok"
    /\ Return(SkipRetry, NoEnd)
    /\ UNCHANGED <<taskVars, logVars, subVars, extVars>>
    /\ UNCHANGED <<ctx, payload, result, resultsSeen, progressSeen, msgsRead>>

ProcessTaskUnhealthy_SkipRetry ==
    /\ hpc = "start"
    /\ payload \in {"ok", "baddata"}
    /\ Return(SkipRetry, NoEnd)
    /\ UNCHANGED <<taskVars, logVars, subVars, extVars>>
    /\ UNCHANGED <<ctx, payload, result, resultsSeen, progressSeen, msgsRead>>

\* handler.go ProcessTask step 5: client.IsHealthy() is false
ProcessTaskUnhealthy ==
    /\ hpc = "start"
    /\ payload \in {"ok", "baddata"}
    /\ Return(PlainErr("service unavailable"), NoEnd)
    /\ UNCHANGED <<taskVars, logVars, subVars, extVars>>
    /\ UNCHANGED <<ctx, payload, result, resultsSeen, progressSeen, msgsRead>>

\* part_002 ExecuteTask: c.client.ExecuteTask opens the stream
ExecuteTaskOpen ==
    /\ hpc = "start"
    /\ payload = "ok"
    /\ ctx = "live"
    /\ hpc' = "recv"
    /\ UNCHANGED <<taskVars, logVars, subVars, extVars>>
    /\ UNCHANGED <<ctx, payload, result, resultsSeen, progressSeen, msgsRead, streamEnd, hret>>

\* part_002 ExecuteTask: opening the stream fails ("failed to start task execution: %w")
ExecuteTaskOpenFails ==
    /\ hpc = "start"
    /\ payload = "ok"
    /\ \E c \in Codes :
        /\ ctx # "live" => StatusErr(c) = CtxStatus
        /\ Return(handleError(StatusErr(c)), End("open", c, FALSE))
    /\ UNCHANGED <<taskVars, logVars, subVars, extVars>>
    /\ UNCHANGED <<ctx, payload, result, resultsSeen, progressSeen, msgsRead>>

\* part_002 ExecuteTask, case Progress: onProgress is handler.go's callback, which logs
RecvProgress ==
    /\ hpc = "recv"
    /\ ctx = "live"
    /\ msgsRead < MaxMsgs
    /\ msgsRead' = msgsRead + 1
    /\ progressSeen' = progressSeen + 1
    /\ UNCHANGED <<taskVars, logVars, subVars, extVars>>
    /\ UNCHANGED <<hpc, ctx, payload, result, resultsSeen, streamEnd, hret>>

\* part_002 ExecuteTask, case Result: result = r.Result
RecvResult ==
    /\ hpc = "recv"
    /\ ctx = "live"
    /\ msgsRead < MaxMsgs
    /\ \E s \in TaskStatuses : result' = s
    /\ msgsRead' = msgsRead + 1
    /\ resultsSeen' = resultsSeen + 1
    /\ UNCHANGED <<taskVars, logVars, subVars, extVars>>
    /\ UNCHANGED <<hpc, ctx, payload, progressSeen, streamEnd, hret>>

\* part_002 ExecuteTask, case Error: return &GRPCError{...}; ProcessTask: handleError
RecvError ==
    /\ hpc = "recv"
    /\ ctx = "live"
    /\ \E r \in BOOLEAN : Return(handleError(GRPCErrorVal("INVALID", r)), End("errmsg", "INVALID", r))
    /\ UNCHANGED <<taskVars, logVars, subVars, extVars>>
    /\ UNCHANGED <<ctx, payload, result, resultsSeen, progressSeen, msgsRead>>

\* what ProcessTask returns once ExecuteTask saw io.EOF
AfterEOF(res) ==
    IF res = "nil" THEN handleError(PlainErr("no result received from stream"))
    ELSE IF res = "FAILED" THEN PlainErr("task failed on grpc service")
    ELSE IF res = "CANCELLED" THEN PlainErr("task cancelled on grpc service")
    ELSE ErrNil

\* part_002 ExecuteTask: io.EOF ends the loop; handler.go ProcessTask step 8
RecvEOF ==
    /\ hpc = "recv"
    /\ ctx = "live"
    /\ Return(AfterEOF(result), End("eof", "", FALSE))
    /\ UNCHANGED <<taskVars, logVars, subVars, extVars>>
    /\ UNCHANGED <<ctx, payload, result, resultsSeen, progressSeen, msgsRead>>

\* part_002 ExecuteTask: stream.Recv fails with a status ("stream error: %w")
RecvTransportError ==
    /\ hpc = "recv"
    /\ ctx = "live"
    /\ \E c \in Codes : Return(handleError(StatusErr(c)), End("transport", c, FALSE))
    /\ UNCHANGED <<taskVars, logVars, subVars, extVars>>
    /\ UNCHANGED <<ctx, payload, result, resultsSeen, progressSeen, msgsRead>>

\* part_002 ExecuteTask: the context is done, the call is cancelled and
\* stream.Recv returns the cancellation status
RecvCancelled ==
    /\ hpc = "recv"
    /\ ctx # "live"
    /\ Return(handleError(CtxStatus), End("ctxdone", CtxStatus.code, FALSE))
    /\ UNCHANGED <<taskVars, logVars, subVars, extVars>>
    /\ UNCHANGED <<ctx, payload, result, resultsSeen, progressSeen, msgsRead>>

Next ==
    \/ CreateTask
    \/ BrokerForward
    \/ BrokerDispatch
    \/ BrokerHandleResult
    \/ BrokerCtxDone
    \/ OrphanReturn
    \/ CancelTask
    \/ TaskTimeout
    \/ ProcessTaskReject
    \/ ProcessTaskUnhealthy
    \/ ExecuteTaskOpen
    \/ ExecuteTaskOpenFails
    \/ RecvProgress
    \/ RecvResult
    \/ RecvError
    \/ RecvEOF
    \/ RecvTransportError
    \/ RecvCancelled

Spec == Init /\ [][Next]_vars

(* ===================== progress log: Publisher ======================== *)
Percentages == {20, 60}
FinalStatuses == {"completed", "failed"}
\* configured progress.ttl is positive
TTLConfigured == TRUE

Last(seq) == seq[Len(seq)]
\* last id of the stream; 0 when the key does not exist
StreamLastID == IF log = <<>> THEN 0 ELSE Last(log).id

\* XADD MAXLEN ~ n: the oldest entries are dropped node by node while at least n
\* entries stay, so the stream is left with n to n + Epsilon entries, the newest
TrimmedTo(seq, keep) == SubSeq(seq, Len(seq) - keep + 1, Len(seq))
Min(a, b) == IF a < b THEN a ELSE b

Trims_NoTrim(seq) == {seq}

Trims(seq) ==
    IF MaxLen > 0 /\ Len(seq) > MaxLen
    THEN {TrimmedTo(seq, keep) : keep \in MaxLen..Min(Len(seq), MaxLen + Epsilon)}
    ELSE {seq}

\* XADD of one entry with an auto-generated id
XAdd(entry) ==
    /\ nextId <= MaxPub
    /\ \E trimmed \in Trims(Append(log, entry)) : log' = trimmed
    /\ published' = Append(published, entry)
    /\ nextId' = nextId + 1

\* subscriber.go Publisher.ensureTTL, run after the XADD
ensureTTL(had) == IF TTLConfigured /\ ~had THEN TRUE ELSE had

\* subscriber.go Publisher.Publish: the XADD is unconditional, then ensureTTL
Publish ==
    /\ \E pct \in Percentages :
        XAdd([id |-> nextId, percentage |-> pct, is_final |-> "", status |-> ""])
    /\ hasTTL' = ensureTTL(hasTTL)
    /\ UNCHANGED <<taskVars, handlerVars, subVars, extVars>>

\* subscriber.go Publisher.PublishCompletion: the XADD is unconditional, no ensureTTL
PublishCompletion ==
    /\ \E st \in FinalStatuses :
        XAdd([id |-> nextId, percentage |-> 100, is_final |-> "true", status |-> st])
    /\ UNCHANGED hasTTL
    /\ UNCHANGED <<taskVars, handlerVars, subVars, extVars>>

\* subscriber.go Publisher.Delete
Delete ==
    /\ log # <<>>
    /\ log' = <<>>
    /\ hasTTL' = FALSE
    /\ UNCHANGED <<nextId, published>>
    /\ UNCHANGED <<taskVars, handlerVars, subVars, extVars>>

\* the store drops a key whose expiry has passed
ExpireKey ==
    /\ log # <<>>
    /\ hasTTL
    /\ log' = <<>>
    /\ hasTTL' = FALSE
    /\ UNCHANGED <<nextId, published>>
    /\ UNCHANGED <<taskVars, handlerVars, subVars, extVars>>

(* ===================== progress log: Subscriber ======================= *)
StartIDs == {Dollar, Dash} \cup 0..MaxStartID

\* subscriber.go parseMessage
parseMessage(msg) ==
    [StreamID |-> msg.id,
     Percentage |-> msg.percentage,
     IsFinal |-> (msg.is_final = "true"),
     Status |-> IF msg.is_final = "true" THEN msg.status ELSE "",
     Error |-> FALSE]
ErrorResult == [StreamID |-> 0, Percentage |-> 0, IsFinal |-> FALSE, Status |-> "", Error |-> TRUE]

\* entries an XREAD from id `from` replies with: those after it, at most ReadCount
RECURSIVE After(_, _)
After(seq, from) ==
    IF seq = <<>> THEN <<>>
    ELSE IF Head(seq).id > from THEN seq
    ELSE After(Tail(seq), from)
ReplyOf(seq, from) ==
    LET e == After(seq, from) IN
    IF Len(e) > ReadCount THEN SubSeq(e, 1, ReadCount) ELSE e
XReadReplyOf(from) == ReplyOf(log, from)

ReadFromOf_AlwaysNew(id, last) == last

\* the id an XREAD issued with `id` reads after: "$" is the stream's last id at
\* that moment, any other id is itself
ReadFromOf(id, last) == IF id = Dollar THEN last ELSE id

AdvanceLastID_Stale(cur, msgID) == cur

\* subscriber.go Subscribe: lastID = msg.ID
AdvanceLastID(cur, msgID) == msgID

AfterSend_IgnoreFinal(res, rest) == IF rest = <<>> THEN "check" ELSE "batch"

\* subscriber.go Subscribe: after a send, return on IsFinal, else go on with the
\* batch, else loop
AfterSend(res, rest) ==
    IF res.IsFinal THEN "closed"
    ELSE IF rest = <<>> THEN "check" ELSE "batch"

\* subscriber.go Subscribe(ctx, taskID, startID): the channel is made and the
\* goroutine started with lastID = startID
SubscribeWith(startID) ==
    /\ spc = "off"
    /\ lastID' = startID
    /\ subStart' = startID
    /\ lastAtStart' = IF startID = Dollar THEN StreamLastID ELSE 0
    /\ spc' = "check"
    /\ UNCHANGED <<readFrom, batch, ch, yielded, subCtx, sentAfterCancel, readErr, received>>
    /\ UNCHANGED <<taskVars, handlerVars, logVars, badStartID, fanVars, apiVars, entVars, tmoVars, mgrVars, mwVars, regVars, depVars>>

\* a caller of the package subscribes with some start id
Subscribe ==
    /\ \E startID \in StartIDs : SubscribeWith(startID)
    /\ UNCHANGED sseVars

\* loop head: the context is done, so the goroutine returns and closes the channel
SubCheckDone ==
    /\ spc = "check"
    /\ subCtx = "cancelled"
    /\ spc' = "closed"
    /\ UNCHANGED <<lastID, readFrom, batch, ch, yielded, subCtx, sentAfterCancel, readErr, received>>
    /\ UNCHANGED <<taskVars, handlerVars, logVars, extVars>>

\* loop head: XREAD BLOCK is issued; the store resolves "$" to the last id now
XReadIssue ==
    /\ spc = "check"
    /\ subCtx = "live"
    /\ readFrom' = ReadFromOf(lastID, StreamLastID)
    /\ spc' = "xread"
    /\ UNCHANGED <<lastID, batch, ch, yielded, subCtx, sentAfterCancel, readErr, received>>
    /\ UNCHANGED <<taskVars, handlerVars, logVars, extVars>>

\* XREAD replies with the entries after the id it was issued with
XReadReply ==
    /\ spc = "xread"
    /\ lastID # Dash
    /\ XReadReplyOf(readFrom) # <<>>
    /\ batch' = XReadReplyOf(readFrom)
    /\ spc' = "batch"
    /\ UNCHANGED <<lastID, readFrom, ch, yielded, subCtx, sentAfterCancel, readErr, received>>
    /\ UNCHANGED <<taskVars, handlerVars, logVars, extVars>>

\* XREAD blocked for the read timeout without a new entry (redis.Nil): continue
XReadTimeout ==
    /\ spc = "xread"
    /\ lastID # Dash
    /\ XReadReplyOf(readFrom) = <<>>
    /\ spc' = "check"
    /\ UNCHANGED <<lastID, readFrom, batch, ch, yielded, subCtx, sentAfterCancel, readErr, received>>
    /\ UNCHANGED <<taskVars, handlerVars, logVars, extVars>>

\* XREAD fails because the context is done: return
XReadCancelled ==
    /\ spc = "xread"
    /\ subCtx = "cancelled"
    /\ spc' = "closed"
    /\ UNCHANGED <<lastID, readFrom, batch, ch, yielded, subCtx, sentAfterCancel, readErr, received>>
    /\ UNCHANGED <<taskVars, handlerVars, logVars, extVars>>

\* XREAD is answered with an error because "-" is not an id XREAD accepts
\* (only XRANGE does); the context is live, so the error goes to the channel
XReadBadID ==
    /\ spc = "xread"
    /\ lastID = Dash
    /\ subCtx = "live"
    /\ badStartID' = TRUE
    /\ readErr' = TRUE
    /\ spc' = "senderr"
    /\ UNCHANGED <<lastID, readFrom, batch, ch, yielded, subCtx, sentAfterCancel, received>>
    /\ UNCHANGED <<taskVars, handlerVars, logVars, subStart, lastAtStart, sseVars, fanVars, apiVars, entVars, tmoVars, mgrVars, mwVars, regVars, depVars>>

\* XREAD fails with a store error while the context is live
XReadError ==
    /\ spc = "xread"
    /\ subCtx = "live"
    /\ readErr' = TRUE
    /\ spc' = "senderr"
    /\ UNCHANGED <<lastID, readFrom, batch, ch, yielded, subCtx, sentAfterCancel, received>>
    /\ UNCHANGED <<taskVars, handlerVars, logVars, extVars>>

\* ch <- SubscribeResult{Error: err}; return
SubSendError ==
    /\ spc = "senderr"
    /\ Len(ch) < ChanCap
    /\ ch' = Append(ch, ErrorResult)
    /\ yielded' = Append(yielded, ErrorResult)
    /\ sentAfterCancel' = sentAfterCancel
    /\ spc' = "closed"
    /\ UNCHANGED <<lastID, readFrom, batch, subCtx, readErr, received>>
    /\ UNCHANGED <<taskVars, handlerVars, logVars, extVars>>

\* the batch loop's select takes the send: parse, lastID = msg.ID, ch <- result
SubSend ==
    /\ spc = "batch"
    /\ Len(ch) < ChanCap
    /\ LET res == parseMessage(Head(batch)) IN
        /\ lastID' = AdvanceLastID(lastID, Head(batch).id)
        /\ ch' = Append(ch, res)
        /\ yielded' = Append(yielded, res)
        /\ sentAfterCancel' = IF subCtx = "cancelled" THEN sentAfterCancel + 1
                              ELSE sentAfterCancel
        /\ batch' = Tail(batch)
        /\ spc' = AfterSend(res, Tail(batch))
    /\ UNCHANGED <<readFrom, subCtx, readErr, received>>
    /\ UNCHANGED <<taskVars, handlerVars, logVars, extVars>>

\* the batch loop's select takes <-ctx.Done(): return
SubSendCancelled ==
    /\ spc = "batch"
    /\ subCtx = "cancelled"
    /\ lastID' = AdvanceLastID(lastID, Head(batch).id)
    /\ spc' = "closed"
    /\ UNCHANGED <<readFrom, batch, ch, yielded, subCtx, sentAfterCancel, readErr, received>>
    /\ UNCHANGED <<taskVars, handlerVars, logVars, extVars>>

\* the caller cancels the subscription's context
SubCancel ==
    /\ spc \notin {"off", "closed"}
    /\ subCtx = "live"
    /\ subCtx' = "cancelled"
    /\ UNCHANGED <<spc, lastID, readFrom, batch, ch, yielded, sentAfterCancel, readErr, received>>
    /\ UNCHANGED <<taskVars, handlerVars, logVars, extVars>>

\* the consumer receives one value from the channel
Consume ==
    /\ ch # <<>>
    /\ received' = Append(received, Head(ch))
    /\ ch' = Tail(ch)
    /\ UNCHANGED <<spc, lastID, readFrom, batch, yielded, subCtx, sentAfterCancel, readErr>>
    /\ UNCHANGED <<taskVars, handlerVars, logVars, extVars>>

NextLog ==
    \/ Publish
    \/ PublishCompletion
    \/ Delete
    \/ ExpireKey
    \/ Subscribe
    \/ SubCheckDone
    \/ XReadIssue
    \/ XReadReply
    \/ XReadTimeout
    \/ XReadCancelled
    \/ XReadBadID
    \/ XReadError
    \/ SubSendError
    \/ SubSend
    \/ SubSendCancelled
    \/ SubCancel
    \/ Consume

SpecLog == Init /\ [][NextLog]_vars

(* ============ subscription shutdown: reader and full channel ========== *)

\* subscriber.go Publisher.Publish with options.MaxLen = 0: the XADD trims
\* nothing, so the log can hold more entries than the channel has room for
PublishUntrimmed ==
    /\ nextId <= MaxBurst
    /\ LET entry == [id |-> nextId, percentage |-> 20, is_final |-> "", status |-> ""] IN
        /\ log' = Append(log, entry)
        /\ published' = Append(published, entry)
    /\ nextId' = nextId + 1
    /\ hasTTL' = ensureTTL(hasTTL)
    /\ UNCHANGED <<taskVars, handlerVars, subVars, extVars>>

\* a caller subscribes from the start of the log
SubscribeFromStart ==
    /\ SubscribeWith(0)
    /\ UNCHANGED sseVars

\* one step of the goroutine started by Subscribe
ReaderStep ==
    \/ SubCheckDone
    \/ XReadIssue
    \/ XReadReply
    \/ XReadTimeout
    \/ XReadCancelled
    \/ SubSendError
    \/ SubSend
    \/ SubSendCancelled

NextDrain ==
    \/ PublishUntrimmed
    \/ SubscribeFromStart
    \/ SubCheckDone
    \/ XReadIssue
    \/ XReadReply
    \/ XReadTimeout
    \/ XReadCancelled
    \/ XReadError
    \/ SubSendError
    \/ SubSend
    \/ SubSendCancelled
    \/ SubCancel
    \/ Consume

\* the reader goroutine is scheduled whenever it can take a step; the
\* publisher, the store's errors, the cancellation and the consumer are free
SpecDrain == Init /\ [][NextDrain]_vars /\ WF_vars(ReaderStep)

(* ============ single-task event stream: StreamProgress ================ *)
\* progress_handler.go writeSSEEvent(w, event, result.Progress): the frame's data
\* is the JSON of the Progress value, which has task_id, percentage, stage,
\* message, timestamp_ms and metadata but neither is_final nor status. `id` names
\* the log entry the frame was made from
ProgressFrame(event, res) ==
    [event |-> event, id |-> res.StreamID, percentage |-> res.Percentage, status |-> ""]
\* writeSSEEvent(w, "done", {task_id, status})
DoneFrame(res) == [event |-> "done", id |-> res.StreamID, percentage |-> 0, status |-> res.Status]
\* writeSSEEvent(w, "error", {message})
ErrorFrame == [event |-> "error", id |-> 0, percentage |-> 0, status |-> ""]

\* subscriber.go GetHistory(ctx, taskID, "-", 0): XRANGE key - +, each message parsed
GetHistory(seq) == [i \in 1..Len(seq) |-> parseMessage(seq[i])]

\* progress_handler.go sendHistory: one history frame per result; nothing on an error
sendHistory(seq, ok) ==
    IF ok THEN [i \in 1..Len(seq) |-> ProgressFrame("history", GetHistory(seq)[i])] ELSE <<>>

\* progress_handler.go StreamProgress up to c.Stream: query parameters (an empty
\* start_id is "$"), history replay when asked for, then Subscribe
StreamProgress ==
    /\ ssePc = "off"
    /\ \E startID \in StartIDs, history \in BOOLEAN, historyOK \in BOOLEAN :
        /\ includeHistory' = history
        /\ frames' = IF history THEN sendHistory(log, historyOK) ELSE <<>>
        /\ SubscribeWith(startID)
    /\ ssePc' = "stream"

\* what the c.Stream callback writes for a value taken from the channel
StreamFrames(res) ==
    IF res.Error THEN <<ErrorFrame>>
    ELSE IF res.IsFinal THEN <<ProgressFrame("progress", res), DoneFrame(res)>>
    ELSE <<ProgressFrame("progress", res)>>

\* c.Stream callback, case result := <-ch: false after an error or the final entry;
\* the request context is cancelled once the handler has returned
StreamRecv ==
    /\ ssePc = "stream"
    /\ ch # <<>>
    /\ LET res == Head(ch) IN
        /\ frames' = frames \o StreamFrames(res)
        /\ ch' = Tail(ch)
        /\ ssePc' = IF res.Error \/ res.IsFinal THEN "end" ELSE "stream"
        /\ subCtx' = IF res.Error \/ res.IsFinal THEN "cancelled" ELSE subCtx
    /\ UNCHANGED <<spc, lastID, readFrom, batch, yielded, sentAfterCancel, readErr, received>>
    /\ UNCHANGED <<taskVars, handlerVars, logVars, startVars, includeHistory, fanVars, apiVars, entVars, tmoVars, mgrVars, mwVars, regVars, depVars>>

\* c.Stream callback, case !ok: the channel is closed and drained
StreamChClosed ==
    /\ ssePc = "stream"
    /\ ch = <<>>
    /\ spc = "closed"
    /\ ssePc' = "end"
    /\ subCtx' = "cancelled"
    /\ UNCHANGED <<spc, lastID, readFrom, batch, ch, yielded, sentAfterCancel, readErr, received>>
    /\ UNCHANGED <<taskVars, handlerVars, logVars, startVars, includeHistory, frames, fanVars, apiVars, entVars, tmoVars, mgrVars, mwVars, regVars, depVars>>

\* c.Stream callback, case <-ctx.Done(): the client went away
StreamCtxDone ==
    /\ ssePc = "stream"
    /\ subCtx = "cancelled"
    /\ ssePc' = "end"
    /\ UNCHANGED subVars
    /\ UNCHANGED <<taskVars, handlerVars, logVars, startVars, includeHistory, frames, fanVars, apiVars, entVars, tmoVars, mgrVars, mwVars, regVars, depVars>>

NextSSE ==
    \/ Publish
    \/ PublishCompletion
    \/ StreamProgress
    \/ SubCheckDone
    \/ XReadIssue
    \/ XReadReply
    \/ XReadTimeout
    \/ XReadCancelled
    \/ XReadBadID
    \/ XReadError
    \/ SubSendError
    \/ SubSend
    \/ SubSendCancelled
    \/ SubCancel
    \/ StreamRecv
    \/ StreamChClosed
    \/ StreamCtxDone

SpecSSE == Init /\ [][NextSSE]_vars

(* ================= several readers on per-task logs =================== *)
\* percentages and terminal statuses the workers report, and the task_ids list
\* a merged stream is opened with (task_ids=a,b)
FanPercentages == {20}
FanStatuses == {"completed"}
TaskIDLists == {[r \in Readers |-> IF r = 1 THEN "a" ELSE "b"]}

TaskLastID(t) == IF tlog[t] = <<>> THEN 0 ELSE Last(tlog[t]).id
\* the task's worker has published its completion entry
Completed(t) == \E i \in 1..Len(tlog[t]) : tlog[t][i].is_final = "true"

\* XADD to the log of task t; these logs stay below max_len, where the MAXLEN
\* argument trims nothing
FanXAdd(t, entry) == tlog' = [tlog EXCEPT ![t] = Append(@, entry)]

\* subscriber.go Publisher.Publish by the worker of task t, which publishes
\* progress until it publishes the task's completion
FanPublish(t) ==
    /\ ~Completed(t)
    /\ TaskLastID(t) < MaxFanPub
    /\ \E pct \in FanPercentages :
        FanXAdd(t, [id |-> TaskLastID(t) + 1, percentage |-> pct, is_final |-> "", status |-> ""])
    /\ UNCHANGED <<rTask, rSpc, rLastID, rReadFrom, rBatch, rCh, rYielded, fanCtx,
                   merged, activeTasks, mPc, mFrames, clientGone, fwd>>
    /\ UNCHANGED <<taskVars, handlerVars, logVars, subVars, startVars, sseVars, apiVars, entVars, tmoVars, mgrVars, mwVars, regVars, depVars>>

\* subscriber.go Publisher.PublishCompletion by the worker of task t
FanPublishCompletion(t) ==
    /\ ~Completed(t)
    /\ \E st \in FanStatuses :
        FanXAdd(t, [id |-> TaskLastID(t) + 1, percentage |-> 100, is_final |-> "true", status |-> st])
    /\ UNCHANGED <<rTask, rSpc, rLastID, rReadFrom, rBatch, rCh, rYielded, fanCtx,
                   merged, activeTasks, mPc, mFrames, clientGone, fwd>>
    /\ UNCHANGED <<taskVars, handlerVars, logVars, subVars, startVars, sseVars, apiVars, entVars, tmoVars, mgrVars, mwVars, regVars, depVars>>

\* what the actions of one reader's goroutine leave alone
ReaderFrame ==
    /\ UNCHANGED <<tlog, rTask, fanCtx, merged, activeTasks, mPc, mFrames, clientGone, fwd>>
    /\ UNCHANGED <<taskVars, handlerVars, logVars, subVars, startVars, sseVars, apiVars, entVars, tmoVars, mgrVars, mwVars, regVars, depVars>>

\* subscriber.go Subscribe, loop head: the context is done
RCheckDone(r) ==
    /\ rSpc[r] = "check"
    /\ fanCtx = "cancelled"
    /\ rSpc' = [rSpc EXCEPT ![r] = "closed"]
    /\ UNCHANGED <<rLastID, rReadFrom, rBatch, rCh, rYielded>>
    /\ ReaderFrame

\* subscriber.go Subscribe, loop head: XREAD BLOCK is issued
RXReadIssue(r) ==
    /\ rSpc[r] = "check"
    /\ fanCtx = "live"
    /\ rReadFrom' = [rReadFrom EXCEPT ![r] = ReadFromOf(rLastID[r], TaskLastID(rTask[r]))]
    /\ rSpc' = [rSpc EXCEPT ![r] = "xread"]
    /\ UNCHANGED <<rLastID, rBatch, rCh, rYielded>>
    /\ ReaderFrame

\* XREAD replies with the entries after the id it was issued with
RXReadReply(r) ==
    /\ rSpc[r] = "xread"
    /\ ReplyOf(tlog[rTask[r]], rReadFrom[r]) # <<>>
    /\ rBatch' = [rBatch EXCEPT ![r] = ReplyOf(tlog[rTask[r]], rReadFrom[r])]
    /\ rSpc' = [rSpc EXCEPT ![r] = "batch"]
    /\ UNCHANGED <<rLastID, rReadFrom, rCh, rYielded>>
    /\ ReaderFrame

\* XREAD timed out (redis.Nil): continue
RXReadTimeout(r) ==
    /\ rSpc[r] = "xread"
    /\ ReplyOf(tlog[rTask[r]], rReadFrom[r]) = <<>>
    /\ rSpc' = [rSpc EXCEPT ![r] = "check"]
    /\ UNCHANGED <<rLastID, rReadFrom, rBatch, rCh, rYielded>>
    /\ ReaderFrame

\* XREAD fails because the context is done: return
RXReadCancelled(r) ==
    /\ rSpc[r] = "xread"
    /\ fanCtx = "cancelled"
    /\ rSpc' = [rSpc EXCEPT ![r] = "closed"]
    /\ UNCHANGED <<rLastID, rReadFrom, rBatch, rCh, rYielded>>
    /\ ReaderFrame

\* XREAD fails with a store error while the context is live:
\* ch <- SubscribeResult{Error: err}; return
RXReadError(r) ==
    /\ rSpc[r] = "xread"
    /\ fanCtx = "live"
    /\ Len(rCh[r]) < ChanCap
    /\ rCh' = [rCh EXCEPT ![r] = Append(@, ErrorResult)]
    /\ rYielded' = [rYielded EXCEPT ![r] = Append(@, ErrorResult)]
    /\ rSpc' = [rSpc EXCEPT ![r] = "closed"]
    /\ UNCHANGED <<rLastID, rReadFrom, rBatch>>
    /\ ReaderFrame

\* the batch loop's select takes the send
RSend(r) ==
    /\ rSpc[r] = "batch"
    /\ Len(rCh[r]) < ChanCap
    /\ LET res == parseMessage(Head(rBatch[r])) IN
        /\ rLastID' = [rLastID EXCEPT ![r] = AdvanceLastID(@, Head(rBatch[r]).id)]
        /\ rCh' = [rCh EXCEPT ![r] = Append(@, res)]
        /\ rYielded' = [rYielded EXCEPT ![r] = Append(@, res)]
        /\ rBatch' = [rBatch EXCEPT ![r] = Tail(@)]
        /\ rSpc' = [rSpc EXCEPT ![r] = AfterSend(res, Tail(rBatch[r]))]
    /\ UNCHANGED rReadFrom
    /\ ReaderFrame

\* the batch loop's select takes <-ctx.Done(): return
RSendCancelled(r) ==
    /\ rSpc[r] = "batch"
    /\ fanCtx = "cancelled"
    /\ rLastID' = [rLastID EXCEPT ![r] = AdvanceLastID(@, Head(rBatch[r]).id)]
    /\ rSpc' = [rSpc EXCEPT ![r] = "closed"]
    /\ UNCHANGED <<rReadFrom, rBatch, rCh, rYielded>>
    /\ ReaderFrame

(* ------------- merged event stream: StreamMultipleProgress ------------ *)
\* progress_handler.go: make(chan taggedResult, len(taskIDs)*10)
MergedCap == Cardinality(Readers) * ChanCap

KeepOpen_UntilFirst(active) == FALSE

\* progress_handler.go c.Stream callback: return activeTasks > 0
KeepOpen(active) == active > 0

\* progress_handler.go StreamMultipleProgress up to c.Stream: one Subscribe from
\* "$" and one forwarding goroutine per task id, activeTasks = len(taskIDs)
StreamMultipleProgress ==
    /\ mPc = "off"
    /\ \E taskIDs \in TaskIDLists :
        /\ rTask' = taskIDs
        /\ rLastID' = [r \in Readers |-> Dollar]
        /\ rSpc' = [r \in Readers |-> "check"]
        /\ fwd' = [r \in Readers |-> "run"]
    /\ activeTasks' = Cardinality(Readers)
    /\ mPc' = "open"
    /\ UNCHANGED <<tlog, rReadFrom, rBatch, rCh, rYielded, fanCtx, merged, mFrames, clientGone>>
    /\ UNCHANGED <<taskVars, handlerVars, logVars, subVars, startVars, sseVars, apiVars, entVars, tmoVars, mgrVars, mwVars, regVars, depVars>>

\* forwarding goroutine: for result := range ch, the select takes the send to merged
Forward(r) ==
    /\ fwd[r] = "run"
    /\ rCh[r] # <<>>
    /\ Len(merged) < MergedCap
    /\ merged' = Append(merged, [TaskID |-> rTask[r], Result |-> Head(rCh[r])])
    /\ rCh' = [rCh EXCEPT ![r] = Tail(@)]
    /\ UNCHANGED <<tlog, rTask, rSpc, rLastID, rReadFrom, rBatch, rYielded, fanCtx,
                   activeTasks, mPc, mFrames, clientGone, fwd>>
    /\ UNCHANGED <<taskVars, handlerVars, logVars, subVars, startVars, sseVars, apiVars, entVars, tmoVars, mgrVars, mwVars, regVars, depVars>>

\* forwarding goroutine: the select takes <-ctx.Done() and the goroutine returns
\* with the result it had taken unsent
ForwardCancelled(r) ==
    /\ fwd[r] = "run"
    /\ rCh[r] # <<>>
    /\ fanCtx = "cancelled"
    /\ rCh' = [rCh EXCEPT ![r] = Tail(@)]
    /\ fwd' = [fwd EXCEPT ![r] = "done"]
    /\ UNCHANGED <<tlog, rTask, rSpc, rLastID, rReadFrom, rBatch, rYielded, fanCtx,
                   merged, activeTasks, mPc, mFrames, clientGone>>
    /\ UNCHANGED <<taskVars, handlerVars, logVars, subVars, startVars, sseVars, apiVars, entVars, tmoVars, mgrVars, mwVars, regVars, depVars>>

\* forwarding goroutine: the reader's channel is closed and drained, range ends
ForwardDone(r) ==
    /\ fwd[r] = "run"
    /\ rCh[r] = <<>>
    /\ rSpc[r] = "closed"
    /\ fwd' = [fwd EXCEPT ![r] = "done"]
    /\ UNCHANGED <<tlog, rTask, rSpc, rLastID, rReadFrom, rBatch, rCh, rYielded, fanCtx,
                   merged, activeTasks, mPc, mFrames, clientGone>>
    /\ UNCHANGED <<taskVars, handlerVars, logVars, subVars, startVars, sseVars, apiVars, entVars, tmoVars, mgrVars, mwVars, regVars, depVars>>

\* the frame the c.Stream callback writes for a tagged result
MergedFrame(tr) ==
    IF tr.Result.Error
    THEN [event |-> "error", task_id |-> tr.TaskID, id |-> 0, is_final |-> FALSE, status |-> ""]
    ELSE [event |-> "progress", task_id |-> tr.TaskID, id |-> tr.Result.StreamID,
          is_final |-> tr.Result.IsFinal, status |-> tr.Result.Status]

\* c.Stream callback, case tr := <-merged: an error or an is_final result counts
\* one task down and the stream goes on while activeTasks > 0; the request
\* context is cancelled once the handler has returned
MergedRecv ==
    /\ mPc = "open"
    /\ merged # <<>>
    /\ LET tr == Head(merged)
           ends == tr.Result.Error \/ tr.Result.IsFinal
           active == IF ends THEN activeTasks - 1 ELSE activeTasks
           keep == IF ends THEN KeepOpen(active) ELSE TRUE
       IN
        /\ mFrames' = Append(mFrames, MergedFrame(tr))
        /\ merged' = Tail(merged)
        /\ activeTasks' = active
        /\ mPc' = IF keep THEN "open" ELSE "closed"
        /\ fanCtx' = IF keep THEN fanCtx ELSE "cancelled"
    /\ UNCHANGED <<tlog, rTask, rSpc, rLastID, rReadFrom, rBatch, rCh, rYielded, clientGone, fwd>>
    /\ UNCHANGED <<taskVars, handlerVars, logVars, subVars, startVars, sseVars, apiVars, entVars, tmoVars, mgrVars, mwVars, regVars, depVars>>

\* c.Stream callback, case <-ctx.Done(): return false
MergedCtxDone ==
    /\ mPc = "open"
    /\ fanCtx = "cancelled"
    /\ mPc' = "closed"
    /\ UNCHANGED <<tlog, rTask, rSpc, rLastID, rReadFrom, rBatch, rCh, rYielded, fanCtx,
                   merged, activeTasks, mFrames, clientGone, fwd>>
    /\ UNCHANGED <<taskVars, handlerVars, logVars, subVars, startVars, sseVars, apiVars, entVars, tmoVars, mgrVars, mwVars, regVars, depVars>>

\* the client of the merged stream disconnects: the request context is cancelled
ClientDisconnect ==
    /\ mPc = "open"
    /\ fanCtx = "live"
    /\ fanCtx' = "cancelled"
    /\ clientGone' = TRUE
    /\ UNCHANGED <<tlog, rTask, rSpc, rLastID, rReadFrom, rBatch, rCh, rYielded,
                   merged, activeTasks, mPc, mFrames, fwd>>
    /\ UNCHANGED <<taskVars, handlerVars, logVars, subVars, startVars, sseVars, apiVars, entVars, tmoVars, mgrVars, mwVars, regVars, depVars>>

NextMerge ==
    \/ \E t \in Tasks : FanPublish(t)
    \/ \E t \in Tasks : FanPublishCompletion(t)
    \/ StreamMultipleProgress
    \/ \E r \in Readers : RCheckDone(r)
    \/ \E r \in Readers : RXReadIssue(r)
    \/ \E r \in Readers : RXReadReply(r)
    \/ \E r \in Readers : RXReadTimeout(r)
    \/ \E r \in Readers : RXReadCancelled(r)
    \/ \E r \in Readers : RXReadError(r)
    \/ \E r \in Readers : RSend(r)
    \/ \E r \in Readers : RSendCancelled(r)
    \/ \E r \in Readers : Forward(r)
    \/ \E r \in Readers : ForwardCancelled(r)
    \/ \E r \in Readers : ForwardDone(r)
    \/ MergedRecv
    \/ MergedCtxDone
    \/ ClientDisconnect

SpecMerge == Init /\ [][NextMerge]_vars

(* ------------- independent subscribers on a completed task ------------ *)
\* subscriber.go Subscribe(ctx, t, "0") by reader r, on a completed task; a
\* second subscriber takes the same task
FanSubscribe(r, t) ==
    /\ mPc = "off"
    /\ rSpc[r] = "off"
    /\ Completed(t)
    /\ \A q \in Readers : rSpc[q] # "off" => rTask[q] = t
    /\ rTask' = [rTask EXCEPT ![r] = t]
    /\ rLastID' = [rLastID EXCEPT ![r] = 0]
    /\ rSpc' = [rSpc EXCEPT ![r] = "check"]
    /\ UNCHANGED <<tlog, rReadFrom, rBatch, rCh, rYielded, fanCtx, merged, activeTasks,
                   mPc, mFrames, clientGone, fwd>>
    /\ UNCHANGED <<taskVars, handlerVars, logVars, subVars, startVars, sseVars, apiVars, entVars, tmoVars, mgrVars, mwVars, regVars, depVars>>

\* the subscriber's consumer receives one value from reader r's channel
RConsume(r) ==
    /\ fwd[r] = "off"
    /\ rCh[r] # <<>>
    /\ rCh' = [rCh EXCEPT ![r] = Tail(@)]
    /\ UNCHANGED <<rSpc, rLastID, rReadFrom, rBatch, rYielded>>
    /\ ReaderFrame

NextFanout ==
    \/ \E t \in Tasks : FanPublish(t)
    \/ \E t \in Tasks : FanPublishCompletion(t)
    \/ \E r \in Readers, t \in Tasks : FanSubscribe(r, t)
    \/ \E r \in Readers : RXReadIssue(r)
    \/ \E r \in Readers : RXReadReply(r)
    \/ \E r \in Readers : RXReadError(r)
    \/ \E r \in Readers : RSend(r)
    \/ \E r \in Readers : RConsume(r)

SpecFanout == Init /\ [][NextFanout]_vars

(* ================= task API: create and get a task ==================== *)
\* error values, by identity (errors.Is compares identities along the wrap chain)
NoErr == "nil"
\* the broker's errors
asynq == [ErrDuplicateTask |-> "asynq.ErrDuplicateTask",
          ErrTaskNotFound |-> "asynq.ErrTaskNotFound",
          ErrQueueNotFound |-> "asynq.ErrQueueNotFound"]
\* the store behind the broker cannot be reached
StoreErr == "store unavailable"
\* service.go: the ErrTaskNotFound of package task (internal/application)
SvcErrTaskNotFound == "task.ErrTaskNotFound"
\* pkg/errors, imported as apperrors by the handler
apperrors == [ErrTaskNotFound |-> "apperrors.ErrTaskNotFound",
              ErrTaskAlreadyExists |-> "apperrors.ErrTaskAlreadyExists",
              ErrInvalidTaskType |-> "apperrors.ErrInvalidTaskType",
              ErrInvalidPayload |-> "apperrors.ErrInvalidPayload",
              ErrInvalidTaskID |-> "apperrors.ErrInvalidTaskID",
              ErrInvalidQueue |-> "apperrors.ErrInvalidQueue"]

errorsIs(err, target) == err = target

\* {type, payload, queue} of a create request, its unique window (0: none), and
\* the queue parameter of a get request
Keys == {"k1", "k2"}
UniqueWindows == {0, 1}
Queues == {"default", "nosuch"}

\* what the broker answers to an enqueue: a unique enqueue whose key is locked is
\* a duplicate; the store may fail at any time
EnqueueOutcomes(key, unique) ==
    {StoreErr} \cup
    (IF unique > 0 /\ \E l \in uniqueLocks : l.key = key
     THEN {asynq.ErrDuplicateTask} ELSE {NoErr})

\* what the broker answers to GetTaskInfo(queue, id)
GetOutcomes(queue, id) ==
    {StoreErr} \cup
    (IF queue # "default" THEN {asynq.ErrQueueNotFound}
     ELSE IF \E t \in brokerTasks : t.id = id THEN {NoErr}
     ELSE {asynq.ErrTaskNotFound})

\* service.go CreateTask: the error of Enqueue is logged and returned as it is
CreateTaskErr(enqueueErr) == enqueueErr

\* service.go GetTask: any error of GetTaskInfo becomes the package's ErrTaskNotFound
GetTaskErr(infoErr) == IF infoErr # NoErr THEN SvcErrTaskNotFound ELSE NoErr

\* task_handler.go Create: status and code of the response
CreateResponse(err) ==
    IF err = NoErr THEN [status |-> 201, code |-> ""]
    ELSE IF errorsIs(err, apperrors.ErrInvalidTaskType) THEN [status |-> 400, code |-> "INVALID_TASK_TYPE"]
    ELSE IF errorsIs(err, apperrors.ErrInvalidPayload) THEN [status |-> 400, code |-> "INVALID_PAYLOAD"]
    ELSE IF errorsIs(err, apperrors.ErrTaskAlreadyExists) THEN [status |-> 409, code |-> "TASK_ALREADY_EXISTS"]
    ELSE [status |-> 500, code |-> "INTERNAL_ERROR"]

\* task_handler.go Get: status and code of the response
GetResponse(err) ==
    IF err = NoErr THEN [status |-> 200, code |-> ""]
    ELSE IF errorsIs(err, apperrors.ErrInvalidTaskID) THEN [status |-> 400, code |-> "INVALID_TASK_ID"]
    ELSE IF errorsIs(err, apperrors.ErrInvalidQueue) THEN [status |-> 400, code |-> "INVALID_QUEUE"]
    ELSE IF errorsIs(err, apperrors.ErrTaskNotFound) THEN [status |-> 404, code |-> "TASK_NOT_FOUND"]
    ELSE [status |-> 500, code |-> "INTERNAL_ERROR"]

\* the broker was not called
NotCalled == "not called"

\* pkg/tasktype Type.IsValid
IsValid(t) == t \in {"demo", "grpc_task"}

\* commands.go CreateTaskCommand.Validate_NoPayloadCheck: Validate without the payload check
Validate_NoPayloadCheck(type, payloadLen) ==
    IF ~IsValid(type) THEN apperrors.ErrInvalidTaskType ELSE NoErr

\* commands.go CreateTaskCommand.Validate
Validate(type, payloadLen) ==
    IF ~IsValid(type) THEN apperrors.ErrInvalidTaskType
    ELSE IF payloadLen = 0 THEN apperrors.ErrInvalidPayload
    ELSE NoErr

\* what create requests carry: the type ("" when the field is missing), the
\* length of the payload (0 when it is missing or empty)
Types == {"", "demo", "nosuch"}
PayloadLens == {0, 1}

\* service.go CreateTask -> client.go Enqueue: an invalid command returns
\* before anything is enqueued; a valid one gets a fresh task id and the Unique
\* option only when unique > 0
ServiceCreateTaskWith(type, payloadLen, key, unique) ==
    LET invalid == Validate(type, payloadLen) IN
    /\ \E enqueueErr \in (IF invalid # NoErr THEN {NotCalled} ELSE EnqueueOutcomes(key, unique)) :
        LET err == IF invalid # NoErr THEN invalid ELSE CreateTaskErr(enqueueErr)
            resp == CreateResponse(err)
        IN
        /\ brokerTasks' = IF enqueueErr = NoErr
                           THEN brokerTasks \cup {[id |-> nextTaskId, key |-> key, unique |-> unique]}
                           ELSE brokerTasks
        /\ uniqueLocks' = IF enqueueErr = NoErr /\ unique > 0
                           THEN uniqueLocks \cup {[key |-> key, id |-> nextTaskId]}
                           ELSE uniqueLocks
        /\ lastResp' = [op |-> "create", cause |-> enqueueErr, svcErr |-> err,
                        status |-> resp.status, code |-> resp.code, key |-> key,
                        unique |-> unique,
                        locked |-> \E l \in uniqueLocks : l.key = key,
                        type |-> type, payload |-> payloadLen,
                        changed |-> (brokerTasks' # brokerTasks \/ uniqueLocks' # uniqueLocks)]
    /\ nextTaskId' = IF invalid # NoErr THEN nextTaskId ELSE nextTaskId + 1
    /\ UNCHANGED notApi

\* a caller of Service.CreateTask other than the HTTP handler
ServiceCreateTask ==
    /\ nextTaskId <= MaxCreates
    /\ \E type \in Types, payloadLen \in PayloadLens, key \in Keys, unique \in UniqueWindows :
        ServiceCreateTaskWith(type, payloadLen, key, unique)

\* task_handler.go Create: the binding requires type and payload, then
\* Service.CreateTask
Create ==
    /\ nextTaskId <= MaxCreates
    /\ \E type \in Types, payloadLen \in PayloadLens, key \in Keys, unique \in UniqueWindows :
        IF type = "" \/ payloadLen = 0
        THEN /\ lastResp' = [op |-> "bind", cause |-> NotCalled, svcErr |-> NoErr,
                             status |-> 400, code |-> "INVALID_REQUEST", key |-> key,
                             unique |-> unique, locked |-> FALSE,
                             type |-> type, payload |-> payloadLen, changed |-> FALSE]
             /\ UNCHANGED <<brokerTasks, uniqueLocks, nextTaskId>>
             /\ UNCHANGED notApi
        ELSE ServiceCreateTaskWith(type, payloadLen, key, unique)

\* task_handler.go Get -> service.go GetTask -> client.go GetTaskInfo
Get ==
    /\ \E id \in 1..MaxCreates, queue \in Queues :
        \E infoErr \in GetOutcomes(queue, id) :
            LET err == GetTaskErr(infoErr)
                resp == GetResponse(err)
            IN
            lastResp' = [NoResp EXCEPT !.op = "get", !.cause = infoErr, !.svcErr = err,
                                       !.status = resp.status, !.code = resp.code]
    /\ UNCHANGED <<brokerTasks, uniqueLocks, nextTaskId>>
    /\ UNCHANGED notApi

\* task_handler.go Cancel: status and code of the response
CancelResponse(err) ==
    IF err = NoErr THEN [status |-> 200, code |-> ""]
    ELSE IF errorsIs(err, apperrors.ErrTaskNotFound) THEN [status |-> 404, code |-> "TASK_NOT_FOUND"]
    ELSE IF errorsIs(err, apperrors.ErrInvalidTaskID) THEN [status |-> 400, code |-> "INVALID_TASK_ID"]
    ELSE [status |-> 500, code |-> "CANCEL_FAILED"]

\* task_handler.go Delete: status and code of the response
DeleteResponse(err) ==
    IF err = NoErr THEN [status |-> 200, code |-> ""]
    ELSE IF errorsIs(err, apperrors.ErrInvalidTaskID) THEN [status |-> 400, code |-> "INVALID_TASK_ID"]
    ELSE IF errorsIs(err, apperrors.ErrInvalidQueue) THEN [status |-> 400, code |-> "INVALID_QUEUE"]
    ELSE IF errorsIs(err, apperrors.ErrTaskNotFound) THEN [status |-> 404, code |-> "TASK_NOT_FOUND"]
    ELSE [status |-> 500, code |-> "DELETE_FAILED"]

\* task_handler.go Cancel -> service.go CancelTask -> client.go CancelTask: the
\* broker's error is logged and returned as it is; a cancellation is a signal
\* to the worker and leaves the broker's tasks as they are
Cancel ==
    /\ \E id \in 1..MaxCreates :
        \E brokerErr \in GetOutcomes("default", id) :
            LET err == brokerErr
                resp == CancelResponse(err)
            IN
            lastResp' = [NoResp EXCEPT !.op = "cancel", !.cause = brokerErr, !.svcErr = err,
                                       !.status = resp.status, !.code = resp.code]
    /\ UNCHANGED <<brokerTasks, uniqueLocks, nextTaskId>>
    /\ UNCHANGED notApi

\* task_handler.go Delete -> service.go DeleteTask -> client.go DeleteTask: the
\* broker's error is logged and returned as it is; a deleted task leaves the
\* broker with its lock
DeleteTask ==
    /\ \E id \in 1..MaxCreates, queue \in Queues :
        \E brokerErr \in GetOutcomes(queue, id) :
            LET err == brokerErr
                resp == DeleteResponse(err)
            IN
            /\ brokerTasks' = IF brokerErr = NoErr
                               THEN {t \in brokerTasks : t.id # id} ELSE brokerTasks
            /\ uniqueLocks' = IF brokerErr = NoErr
                               THEN {l \in uniqueLocks : l.id # id} ELSE uniqueLocks
            /\ lastResp' = [NoResp EXCEPT !.op = "delete", !.cause = brokerErr, !.svcErr = err,
                                          !.status = resp.status, !.code = resp.code,
                                          !.changed = (brokerErr = NoErr)]
    /\ UNCHANGED nextTaskId
    /\ UNCHANGED notApi

\* the unique window of a lock has passed
UniqueExpire ==
    /\ \E l \in uniqueLocks : uniqueLocks' = uniqueLocks \ {l}
    /\ UNCHANGED <<brokerTasks, nextTaskId, lastResp>>
    /\ UNCHANGED notApi

\* a task is processed and leaves the broker, which releases its lock
TaskDone ==
    /\ \E t \in brokerTasks :
        /\ brokerTasks' = brokerTasks \ {t}
        /\ uniqueLocks' = {l \in uniqueLocks : l.id # t.id}
    /\ UNCHANGED <<nextTaskId, lastResp>>
    /\ UNCHANGED notApi

NextAPI ==
    \/ Create
    \/ ServiceCreateTask
    \/ Get
    \/ Cancel
    \/ DeleteTask
    \/ UniqueExpire
    \/ TaskDone

SpecAPI == Init /\ [][NextAPI]_vars

(* ======================= Task entity (domain) ========================= *)
\* entity.go IsTerminal
IsTerminal(t) == t.Status \in {"completed", "failed", "cancelled"}

\* entity.go NewTask, then the MaxRetries override of service.go CreateTask
NewTask ==
    /\ entity.Status = "none"
    /\ \E cmdMax \in -1..MaxReqRetries :
        entity' = [Status |-> "pending", MaxRetries |-> EntityMaxRetries(cmdMax), Retried |-> 0]
    /\ UNCHANGED notEnt

\* entity.go SetScheduledAt
SetScheduledAt ==
    /\ entity.Status # "none"
    /\ entity' = [entity EXCEPT !.Status = "scheduled"]
    /\ UNCHANGED notEnt

\* entity.go MarkRunning
MarkRunning ==
    /\ entity.Status # "none"
    /\ entity' = [entity EXCEPT !.Status = "running"]
    /\ UNCHANGED notEnt

\* entity.go MarkCompleted: a result that cannot be marshalled changes nothing
MarkCompleted ==
    /\ entity.Status # "none"
    /\ \E marshalOK \in BOOLEAN :
        entity' = IF marshalOK THEN [entity EXCEPT !.Status = "completed"] ELSE entity
    /\ UNCHANGED notEnt

\* entity.go MarkFailed
MarkFailed ==
    /\ entity.Status # "none"
    /\ entity' = [entity EXCEPT !.Status = "failed"]
    /\ UNCHANGED notEnt

\* entity.go MarkCancelled
MarkCancelled ==
    /\ entity.Status # "none"
    /\ entity' = [entity EXCEPT !.Status = "cancelled"]
    /\ UNCHANGED notEnt

\* entity.go IncrementRetry
IncrementRetry ==
    /\ entity.Status # "none"
    /\ entity.Retried < MaxIncrements
    /\ entity' = [entity EXCEPT !.Retried = @ + 1, !.Status = "retrying"]
    /\ UNCHANGED notEnt

NextEntity ==
    \/ NewTask
    \/ SetScheduledAt
    \/ MarkRunning
    \/ MarkCompleted
    \/ MarkFailed
    \/ MarkCancelled
    \/ IncrementRetry

SpecEntity == Init /\ [][NextEntity]_vars

(* ============== timeout of a grpc_task's remote call ================== *)
\* durations are in microseconds
Second == 1000 * Millisecond
\* the timeout_ms option of the payload ({}: not given), the timeout of the
\* service's configuration and the global default (0: not set)
PayloadTimeouts == {{}, {-1}, {0}, {1}, {4}}
ServiceTimeouts == {0, 500, 2000, 7000}
GlobalTimeouts == {0, 500, 3000}

\* handler.go buildRequest: the timeout it computes
RequestTimeout(p, serviceCfg, defaults) ==
    LET t1 == IF serviceCfg = 0 THEN defaults ELSE serviceCfg
        t2 == IF t1 = 0 THEN 300 * Second ELSE t1
    IN IF p # {} THEN (CHOOSE v \in p : TRUE) * Millisecond ELSE t2

\* time.Duration.Milliseconds: whole milliseconds, rounded toward zero
Milliseconds(d) == IF d >= 0 THEN d \div Millisecond ELSE -((-d) \div Millisecond)

\* NewStreamingGRPCClient: config.Timeout of the service's client
ClientTimeout(serviceCfg) == IF serviceCfg = 0 THEN 300 * Second ELSE serviceCfg

\* ExecuteTask: the timeout of context.WithTimeout around the stream
ExecuteTaskTimeout(reqMs, clientTimeout) ==
    IF reqMs > 0 THEN reqMs * Millisecond ELSE clientTimeout

\* handler.go buildRequest: Options.TimeoutMs of the request
buildRequest ==
    /\ tmo.pc = "idle"
    /\ \E p \in PayloadTimeouts, serviceCfg \in ServiceTimeouts, defaults \in GlobalTimeouts :
        tmo' = [pc |-> "built", payload |-> p, service |-> serviceCfg, global |-> defaults,
                reqMs |-> Milliseconds(RequestTimeout(p, serviceCfg, defaults)),
                bound |-> 0]
    /\ UNCHANGED notTmo

\* ExecuteTask: the stream is opened under context.WithTimeout
ExecuteTaskDeadline ==
    /\ tmo.pc = "built"
    /\ tmo' = [tmo EXCEPT !.pc = "open",
                          !.bound = ExecuteTaskTimeout(tmo.reqMs, ClientTimeout(tmo.service))]
    /\ UNCHANGED notTmo

NextTimeout ==
    \/ buildRequest
    \/ ExecuteTaskDeadline

SpecTimeout == Init /\ [][NextTimeout]_vars

(* ========================= ClientManager ============================== *)
\* StreamingGRPCClient.Close called on each client of cs
CloseClients(closes, cs) ==
    [c \in ClientIds |-> IF \E e \in cs : e.id = c THEN closes[c] + 1 ELSE closes[c]]

\* the map after Close when it is left as it was
ClientsAfterClose_Kept(clients) == clients

\* manager.go Close: m.clients = make(map...) after the loop
ClientsAfterClose(clients) == {}

\* the clients made for the services of names, with fresh ids from next on
ClientsFor(names, next) ==
    {[name |-> ServiceOrder[i],
      id |-> next + Cardinality({j \in 1..(i - 1) : ServiceOrder[j] \in names})] :
        i \in {k \in 1..Len(ServiceOrder) : ServiceOrder[k] \in names}}

\* manager.go NewClientManager: one client per configured service; when a
\* client cannot be created the ones made so far (names) are closed by m.Close()
NewClientManager ==
    /\ ~mgr.built
    /\ \E names \in SUBSET ServiceNames, failed \in BOOLEAN :
        LET made == ClientsFor(names, mgr.next) IN
        /\ mgr.next + Cardinality(names) - 1 <= MaxClients
        /\ failed => names # ServiceNames
        /\ mgr' = IF failed
                   THEN [built |-> FALSE, clients |-> ClientsAfterClose(made),
                         configs |-> {},
                         closes |-> CloseClients(mgr.closes, made),
                         next |-> mgr.next + Cardinality(names)]
                   ELSE [built |-> TRUE, clients |-> made, configs |-> names,
                         closes |-> mgr.closes,
                         next |-> mgr.next + Cardinality(names)]
    /\ UNCHANGED notMgr

\* manager.go AddClient, under m.mu: an existing name and a client that cannot
\* be created leave the manager as it is
AddClient ==
    /\ mgr.built
    /\ \E name \in ServiceNames, created \in BOOLEAN :
        IF (\E e \in mgr.clients : e.name = name) \/ ~created
        THEN UNCHANGED mgr
        ELSE /\ mgr.next <= MaxClients
             /\ mgr' = [mgr EXCEPT !.clients = @ \cup {[name |-> name, id |-> mgr.next]},
                                   !.configs = @ \cup {name},
                                   !.next = @ + 1]
    /\ UNCHANGED notMgr

\* manager.go RemoveClient, under m.mu: the client is closed and deleted from
\* the map whether or not its Close reports an error
RemoveClient ==
    /\ mgr.built
    /\ \E name \in ServiceNames :
        LET found == {e \in mgr.clients : e.name = name} IN
        IF found = {}
        THEN UNCHANGED mgr
        ELSE mgr' = [mgr EXCEPT !.closes = CloseClients(@, found),
                                !.clients = @ \ found,
                                !.configs = @ \ {name}]
    /\ UNCHANGED notMgr

\* manager.go Close, under m.mu: every client in the map is closed, then the
\* map is replaced by an empty one; m.configs stays
Close ==
    /\ mgr.built
    /\ mgr' = [mgr EXCEPT !.closes = CloseClients(@, mgr.clients),
                            !.clients = ClientsAfterClose(@)]
    /\ UNCHANGED notMgr

NextManager ==
    \/ NewClientManager
    \/ AddClient
    \/ RemoveClient
    \/ Close

SpecManager == Init /\ [][NextManager]_vars

(* ====================== worker middleware chain ======================= *)

\* the chains of middlewares, outermost first: the one main.go installs and the
\* one with TimeoutMiddleware innermost
Chains == {<<"Recovery", "Logging">>, <<"Recovery", "Logging", "Timeout">>}

\* what a handler's run ends with: nil, an ordinary error, SkipRetry or a panic
HandlerOutcomes == {"nil", "err", "skip", "panic"}

\* the worker goroutine is about to enter the middleware at depth d
Entering(name) ==
    /\ ~mw.crashed
    /\ mw.task = "active"
    /\ mw.ret = "none"
    /\ ~mw.waiting
    /\ mw.depth \in 1..Len(mw.chain)
    /\ mw.chain[mw.depth] = name

\* the call below the middleware at depth d has ended with mw.ret
Leaving(name) ==
    /\ ~mw.crashed
    /\ mw.task = "active"
    /\ mw.ret # "none"
    /\ mw.depth \in 1..Len(mw.chain)
    /\ mw.chain[mw.depth] = name

\* main.go: server.Use(...), registry.SetupServer, server.Start
ServerUse ==
    /\ mw.chain = <<>>
    /\ \E chain \in Chains : mw' = [mw EXCEPT !.chain = chain]
    /\ UNCHANGED notMw

\* a task is enqueued for the worker
MwEnqueue ==
    /\ ~mw.crashed
    /\ mw.chain # <<>>
    /\ mw.task \in {"none", "archived", "completed"}
    /\ mw.handled < MaxTasks
    /\ mw' = [mw EXCEPT !.task = "pending", !.retried = 0, !.panicked = FALSE,
                        !.handled = @ + 1]
    /\ UNCHANGED notMw

\* the runtime hands the task to the outermost middleware
MwDispatch ==
    /\ ~mw.crashed
    /\ mw.task \in {"pending", "retry"}
    /\ mw' = [mw EXCEPT !.task = "active", !.depth = 1, !.ret = "none"]
    /\ UNCHANGED notMw

\* middleware.go RecoveryMiddleware: the deferred function is registered and
\* the next handler is called on the same goroutine
RecoveryEnter ==
    /\ Entering("Recovery")
    /\ mw' = [mw EXCEPT !.depth = @ + 1]
    /\ UNCHANGED notMw

\* what RecoveryMiddleware returns for what came up from below
Recovered(ret) == IF ret = "panic" THEN "skip" ELSE ret

\* middleware.go RecoveryMiddleware: the deferred recover turns a panic that
\* unwinds this goroutine into SkipRetry
RecoveryExit ==
    /\ Leaving("Recovery")
    /\ mw' = [mw EXCEPT !.depth = @ - 1, !.ret = Recovered(@)]
    /\ UNCHANGED notMw

\* middleware.go LoggingMiddleware: logs "processing task", calls the next
LoggingEnter ==
    /\ Entering("Logging")
    /\ mw' = [mw EXCEPT !.depth = @ + 1]
    /\ UNCHANGED notMw

\* middleware.go LoggingMiddleware: logs the result and returns it; a panic
\* unwinds through it without a log line
LoggingExit ==
    /\ Leaving("Logging")
    /\ mw' = [mw EXCEPT !.depth = @ - 1,
                        !.logged = IF mw.ret = "panic" THEN @ ELSE @ + 1]
    /\ UNCHANGED notMw

\* middleware.go TimeoutMiddleware: context.WithTimeout, the next handler is
\* started on a new goroutine and the worker goroutine waits in the select
TimeoutEnter ==
    /\ Entering("Timeout")
    /\ mw' = [mw EXCEPT !.waiting = TRUE, !.running = TRUE, !.ctxDone = FALSE,
                        !.early = "none", !.tmoRet = "none", !.done = "none"]
    /\ UNCHANGED notMw

\* the handler run by the goroutine of TimeoutMiddleware: its result goes to
\* the channel done; a panic has no recover on this goroutine and ends the
\* process
GoProcessTask ==
    /\ ~mw.crashed
    /\ mw.running
    /\ \E out \in HandlerOutcomes :
        IF out = "panic"
        THEN mw' = [mw EXCEPT !.running = FALSE, !.panicked = TRUE, !.crashed = TRUE]
        ELSE mw' = [mw EXCEPT !.running = FALSE, !.done = out,
                              !.early = IF mw.ctxDone THEN @ ELSE out]
    /\ UNCHANGED notMw

\* the deadline of context.WithTimeout passes (or the parent context is
\* cancelled): the context handed to the handler is done
TimeoutExpire ==
    /\ ~mw.crashed
    /\ mw.waiting
    /\ ~mw.ctxDone
    /\ mw' = [mw EXCEPT !.ctxDone = TRUE]
    /\ UNCHANGED notMw

\* middleware.go TimeoutMiddleware, case err := <-done
TimeoutDone ==
    /\ ~mw.crashed
    /\ mw.waiting
    /\ mw.done # "none"
    /\ mw' = [mw EXCEPT !.waiting = FALSE, !.ret = mw.done, !.tmoRet = mw.done,
                        !.done = "none", !.depth = @ - 1]
    /\ UNCHANGED notMw

\* middleware.go TimeoutMiddleware, case <-ctx.Done(): ctx.Err() is returned;
\* a handler that has not returned goes on running on its goroutine
TimeoutCtxDone ==
    /\ ~mw.crashed
    /\ mw.waiting
    /\ mw.ctxDone
    /\ mw' = [mw EXCEPT !.waiting = FALSE, !.ret = "deadline", !.tmoRet = "deadline",
                        !.running = FALSE, !.done = "none",
                        !.leaked = IF mw.running THEN @ + 1 ELSE @,
                        !.depth = @ - 1]
    /\ UNCHANGED notMw

\* a handler left behind by a timeout ends: its result stays in the buffered
\* channel, a panic ends the process
LeakedProcessTask ==
    /\ ~mw.crashed
    /\ mw.leaked > 0
    /\ \E out \in HandlerOutcomes :
        IF out = "panic"
        THEN mw' = [mw EXCEPT !.leaked = @ - 1, !.crashed = TRUE]
        ELSE mw' = [mw EXCEPT !.leaked = @ - 1]
    /\ UNCHANGED notMw

\* the handler called directly by the innermost middleware, on the worker
\* goroutine
HandlerProcessTask ==
    /\ ~mw.crashed
    /\ mw.task = "active"
    /\ mw.ret = "none"
    /\ ~mw.waiting
    /\ mw.depth = Len(mw.chain) + 1
    /\ \E out \in HandlerOutcomes :
        mw' = [mw EXCEPT !.ret = out, !.depth = @ - 1,
                         !.panicked = @ \/ out = "panic"]
    /\ UNCHANGED notMw

\* the runtime's rule for what the chain returned: nil completes, SkipRetry
\* archives, any other error (a panic that reached the runtime is one) retries
\* while retries are left
MwResult ==
    /\ ~mw.crashed
    /\ mw.task = "active"
    /\ mw.depth = 0
    /\ mw.ret # "none"
    /\ mw' = [mw EXCEPT
                !.ret = "none",
                !.task = CASE mw.ret = "nil" -> "completed"
                           [] mw.ret = "skip" -> "archived"
                           [] OTHER -> IF mw.retried < DefaultMaxRetries
                                       THEN "retry" ELSE "archived",
                !.retried = IF mw.ret \in {"nil", "skip"} \/ mw.retried >= DefaultMaxRetries
                            THEN @ ELSE @ + 1]
    /\ UNCHANGED notMw

NextMiddleware ==
    \/ ServerUse
    \/ MwEnqueue
    \/ MwDispatch
    \/ RecoveryEnter
    \/ RecoveryExit
    \/ LoggingEnter
    \/ LoggingExit
    \/ TimeoutEnter
    \/ GoProcessTask
    \/ TimeoutExpire
    \/ TimeoutDone
    \/ TimeoutCtxDone
    \/ LeakedProcessTask
    \/ HandlerProcessTask
    \/ MwResult

SpecMiddleware == Init /\ [][NextMiddleware]_vars

(* ========================= handler registry =========================== *)

\* r.handlers[type] = handler with the entry of the type kept beside the new one
Put_Append(handlers, type, h) == handlers \cup {[type |-> type, h |-> h]}

\* registry.go Register: r.handlers[handler.Type()] = handler
Put(handlers, type, h) ==
    {e \in handlers : e.type # type} \cup {[type |-> type, h |-> h]}

RECURSIVE PutAll(_, _, _)
\* registry.go RegisterAll: Register for each handler in turn
PutAll(handlers, types, h) ==
    IF types = <<>> THEN handlers
    ELSE PutAll(Put(handlers, Head(types), h), Tail(types), h + 1)

RECURSIVE LatestAll(_, _, _)
LatestAll(latest, types, h) ==
    IF types = <<>> THEN latest
    ELSE LatestAll([latest EXCEPT ![Head(types)] = h], Tail(types), h + 1)

\* registry.go Types: one element appended per entry of the map, in the
\* order the range visits them
TypesOf(handlers) ==
    {[i \in 1..Cardinality(handlers) |-> f[i].type] :
        f \in {g \in [1..Cardinality(handlers) -> handlers] :
                    \A i, j \in 1..Cardinality(handlers) : g[i] = g[j] => i = j}}

\* registry.go Register
Register ==
    /\ reg.next <= MaxRegisters
    /\ \E type \in RegTypes :
        reg' = [reg EXCEPT !.handlers = Put(@, type, reg.next),
                           !.latest[type] = reg.next,
                           !.next = @ + 1]
    /\ UNCHANGED notReg

\* registry.go RegisterAll with two handlers
RegisterAll ==
    /\ reg.next + 1 <= MaxRegisters
    /\ \E t1 \in RegTypes, t2 \in RegTypes :
        reg' = [reg EXCEPT !.handlers = PutAll(@, <<t1, t2>>, reg.next),
                           !.latest = LatestAll(@, <<t1, t2>>, reg.next),
                           !.next = @ + 2]
    /\ UNCHANGED notReg

\* registry.go Get: h, ok := r.handlers[taskType]
Get_Registry ==
    /\ \E type \in RegTypes :
        \/ /\ ~\E e \in reg.handlers : e.type = type
           /\ reg' = [reg EXCEPT !.got = [at |-> reg.next, type |-> type, h |-> 0,
                                          ok |-> FALSE]]
        \/ \E e \in reg.handlers :
            /\ e.type = type
            /\ reg' = [reg EXCEPT !.got = [at |-> reg.next, type |-> type, h |-> e.h,
                                           ok |-> TRUE]]
    /\ UNCHANGED notReg

\* registry.go HasHandler: _, ok := r.handlers[taskType.String()]
HasHandler ==
    /\ \E type \in RegTypes :
        reg' = [reg EXCEPT !.has = [at |-> reg.next, type |-> type,
                                    ok |-> \E e \in reg.handlers : e.type = type]]
    /\ UNCHANGED notReg

\* registry.go Types
RegistryTypes ==
    /\ \E val \in TypesOf(reg.handlers) :
        reg' = [reg EXCEPT !.types = [at |-> reg.next, val |-> val]]
    /\ UNCHANGED notReg

NextRegistry ==
    \/ Register
    \/ RegisterAll
    \/ Get_Registry
    \/ HasHandler
    \/ RegistryTypes

SpecRegistry == Init /\ [][NextRegistry]_vars

(* ============== deployment: accepted types, served queues ============= *)

\* config.go QueuesConfig.ToMap: the queues the server polls; Config.Validate
\* wants every weight positive
ConfiguredQueues == {"critical", "high", "default", "low"}

\* the queue field of a create request ("" when it is missing)
RequestQueues == {"", "critical", "reports"}

\* pkg/tasktype Type.Queue
TypeQueue(type) == "default"

\* service.go CreateTask: the entity's queue is the type's, replaced by the
\* command's when that is not empty
TaskQueue(type, cmdQueue) == IF cmdQueue # "" THEN cmdQueue ELSE TypeQueue(type)

\* main.go: the configuration is loaded
LoadConfig ==
    /\ dep.pc = "start"
    /\ \E enabled \in BOOLEAN, services \in 0..MaxServices :
        dep' = [dep EXCEPT !.pc = "registry", !.enabled = enabled,
                           !.services = services]
    /\ UNCHANGED notDep

\* main.go: registry.Register(demo.NewHandler(logger))
MainRegisterDemo ==
    /\ dep.pc = "registry"
    /\ dep' = [dep EXCEPT !.pc = "grpc", !.handlers = @ \cup {"demo"}]
    /\ UNCHANGED notDep

\* main.go: the grpc_task handler is registered only when gRPC services are
\* enabled and at least one is configured; a client manager that cannot be
\* built ends the process (logger.Fatal)
MainRegisterGRPC ==
    /\ dep.pc = "grpc"
    /\ IF dep.enabled /\ dep.services > 0
       THEN \E managerOK \in BOOLEAN :
                dep' = IF managerOK
                       THEN [dep EXCEPT !.pc = "setup", !.handlers = @ \cup {"grpc_task"}]
                       ELSE [dep EXCEPT !.pc = "fatal"]
       ELSE dep' = [dep EXCEPT !.pc = "setup"]
    /\ UNCHANGED notDep

\* main.go: NewServer with Queues: cfg.Queues.ToMap(), server.Use,
\* registry.SetupServer (one HandleFunc per registered type), server.Start
MainSetupServer ==
    /\ dep.pc = "setup"
    /\ dep' = [dep EXCEPT !.pc = "serving", !.mux = dep.handlers]
    /\ UNCHANGED notDep

\* service.go CreateTask + client.go Enqueue of a request with a payload: Validate,
\* NewTask, the queue, asynq.Queue(opt.Queue); the API runs in a process of its
\* own, whatever the worker's main has done so far
CreateTaskOn ==
    /\ \E type \in (Types \cup {"grpc_task"}) \ {""}, cmdQueue \in RequestQueues :
        IF Validate(type, 1) # NoErr
        THEN UNCHANGED dep
        ELSE dep' = [dep EXCEPT !.pending = @ \cup
                        {[type |-> type, queue |-> TaskQueue(type, cmdQueue)]}]
    /\ UNCHANGED notDep

\* the runtime takes a task from a queue it polls and calls the handler the
\* mux has for its type; without one the attempt fails ("handler not found")
WorkerProcess ==
    /\ dep.pc = "serving"
    /\ \E t \in dep.pending :
        /\ t.queue \in ConfiguredQueues
        /\ dep' = IF t.type \in dep.mux
                  THEN [dep EXCEPT !.pending = @ \ {t}, !.done = @ \cup {t}]
                  ELSE [dep EXCEPT !.pending = @ \ {t}, !.notFound = @ \cup {t}]
    /\ UNCHANGED notDep

NextDeploy ==
    \/ LoadConfig
    \/ MainRegisterDemo
    \/ MainRegisterGRPC
    \/ MainSetupServer
    \/ CreateTaskOn
    \/ WorkerProcess

SpecDeploy == Init /\ [][NextDeploy]_vars

(* ====================== properties under Spec ========================= *)

\* C1: the handler of a task is invoked at most max_retries + 1 times, whatever
\* the outcomes of the attempts (success, error, SkipRetry, timeout, cancel)
RetryBound == invocations <= taskMaxRetries + 1

\* every retry was used up: max_retries + 1 invocations, then archived
RetryBoundReached ==
    /\ taskState = "archived"
    /\ invocations = taskMaxRetries + 1
    /\ retried = taskMaxRetries
    /\ invocations > 1

\* C2: an error message with retryable=false makes the handler return SkipRetry
\* (the task is archived after that attempt); with retryable=true it returns
\* an ordinary error
ErrorMessageEscalates ==
    (hpc = "returned" /\ streamEnd.how = "errmsg") =>
        IF streamEnd.retryable
        THEN hret # SkipRetry /\ hret # ErrNil
        ELSE hret = SkipRetry

\* C3: a stream that fails with a transport status returns SkipRetry exactly for
\* the non-retryable codes and the status error itself for every other code; a
\* task whose first attempt failed with Unavailable is retried, and completes
\* with two invocations when the second attempt succeeds
TransportClassification ==
    /\ (hpc = "returned" /\ streamEnd.how \in {"transport", "open"}) =>
          /\ hret = SkipRetry <=> streamEnd.code \in NonRetryableCodes
          /\ hret # SkipRetry => hret = StatusErr(streamEnd.code)
    /\ (firstRet = StatusErr("Unavailable") /\ invocations = 1) =>
          taskState \in {"retry", "pending"}
    /\ (firstRet = StatusErr("Unavailable") /\ invocations = 2 /\ lastErr = "nil") =>
          taskState = "completed"

\* Unavailable on the first attempt, success on the second
UnavailableThenSuccess ==
    /\ firstRet = StatusErr("Unavailable")
    /\ invocations = 2
    /\ lastErr = "nil"
    /\ taskState = "completed"

\* C4: ExecuteTask succeeds only when exactly one result message was seen
ExactlyOneResult ==
    (hpc = "returned" /\ hret = ErrNil) => resultsSeen = 1

\* C9: the error returned after the handler context was cancelled with the
\* stream open is not classified as retryable
CancelNotRetryable ==
    (hpc = "returned" /\ streamEnd.how = "ctxdone") =>
        (hret # ErrNil /\ ~ConvertError(hret).Retryable)

\* C10: every progress message received from the stream has been appended to
\* the task's progress log before the next message is read
ProgressPublished ==
    hpc \in {"recv", "returned"} => Len(log) >= progressSeen

\* C11: once a grpc_task attempt has failed (the handler returned an error), the
\* task's progress log holds an entry with is_final=true and status=failed
FailurePublished ==
    (hpc = "returned" /\ hret # ErrNil) =>
        \E i \in 1..Len(log) : log[i].is_final = "true" /\ log[i].status = "failed"

\* C23: an attempt that ends with SkipRetry archives the task whatever its
\* retried count is and leaves the count as it is; an attempt that ends with any
\* other error while retried < max_retries adds exactly one to retried and moves
\* the task to retry; retried never decreases
RetryCounting ==
    [][/\ retried' >= retried
       /\ (taskState = "active" /\ taskState' # "active") =>
            /\ lastErr' = SkipRetry.kind =>
                  (taskState' = "archived" /\ retried' = retried)
            /\ (lastErr' \notin {ErrNil.kind, SkipRetry.kind} /\ retried < taskMaxRetries) =>
                  (taskState' = "retry" /\ retried' = retried + 1)]_vars

\* a task archived by SkipRetry after it had been retried
SkipRetryAfterRetry ==
    /\ taskState = "archived"
    /\ lastErr = SkipRetry.kind
    /\ retried >= 1
    /\ retried < taskMaxRetries

\* C27: a grpc_task whose payload cannot be parsed, has no service, or names a
\* service the manager has no client for returns SkipRetry, and no remote call
\* is opened for it
BadPayloadSkipsRetry ==
    payload \in {"malformed", "noservice", "unknownservice"} =>
        /\ hpc # "recv"
        /\ hpc = "returned" => (hret = SkipRetry /\ streamEnd = NoEnd /\ msgsRead = 0)

\* the handler has returned for a payload naming an unknown service
UnknownServiceReturned ==
    /\ payload = "unknownservice"
    /\ hpc = "returned"
    /\ hret = SkipRetry

\* C28: when the service's client is unhealthy at the check the handler returns
\* an ordinary error without opening a remote call, and the broker retries the
\* task instead of archiving it while retries remain
UnhealthyRetried ==
    [][/\ (hpc = "start" /\ hpc' = "returned" /\ payload = "ok" /\ streamEnd' = NoEnd) =>
            hret'.kind = "plain"
       /\ (taskState = "active" /\ taskState' # "active" /\ ctx = "live"
              /\ hpc = "returned" /\ payload = "ok" /\ streamEnd = NoEnd
              /\ retried < taskMaxRetries) =>
            (taskState' = "retry" /\ retried' = retried + 1)]_vars

\* the first attempt found the client unhealthy and the task waits for its retry
UnhealthyThenRetry ==
    /\ taskState = "retry"
    /\ invocations = 1
    /\ payload = "ok"
    /\ firstRet = PlainErr("service unavailable")

\* C33: once the stream consumer has read a result it processes no further
\* message: no progress callback, no second result and no error message that
\* changes what the call returns
NoMessageAfterTerminal ==
    [][(hpc = "recv" /\ resultsSeen >= 1) =>
            /\ progressSeen' = progressSeen
            /\ resultsSeen' = resultsSeen
            /\ (hpc' = "recv" => result' = result)
            /\ streamEnd'.how # "errmsg"]_vars

(* ===================== properties under SpecLog ======================= *)

\* C5: once an is_final entry is in the log nothing is appended after it: the
\* log holds at most one is_final entry and it is the last one
FinalIsLast ==
    \A i \in 1..Len(log) : log[i].is_final = "true" => i = Len(log)

\* the entries among what was sent on the channel (the error value set aside)
YieldedEntries == SelectSeq(yielded, LAMBDA r : ~r.Error)

\* C6: a subscriber receives entries in strictly increasing log-id order, which
\* is the order of the appends, and no entry twice
YieldedInOrder ==
    /\ \A i, j \in 1..Len(YieldedEntries) :
          i < j => YieldedEntries[i].StreamID < YieldedEntries[j].StreamID
    /\ \A i \in 1..Len(YieldedEntries) :
          /\ YieldedEntries[i].StreamID \in 1..Len(published)
          /\ YieldedEntries[i] = parseMessage(published[YieldedEntries[i].StreamID])
    /\ \A i \in 1..Len(received) : received[i] = yielded[i]

\* the consumer has taken three entries, the last of them read by an XREAD
\* that was issued from the id of an entry received before
ThreeReceived ==
    /\ Len(received) >= 3
    /\ ~received[3].Error
    /\ readFrom > 0
    /\ readFrom < received[3].StreamID

\* C7: the channel is closed right after the first is_final entry was sent; no
\* entry follows it, and a channel closed without cancellation or read error
\* ends with the is_final entry
FinalEndsStream ==
    /\ \A i \in 1..Len(yielded) : yielded[i].IsFinal => i = Len(yielded)
    /\ (yielded # <<>> /\ Last(yielded).IsFinal) => spc = "closed"
    /\ (spc = "closed" /\ subCtx = "live" /\ ~readErr) =>
          (yielded # <<>> /\ Last(yielded).IsFinal)

\* the is_final entry was sent while the same reply still held a later entry
FinalBeforeBatchEnd ==
    /\ spc = "closed"
    /\ subCtx = "live"
    /\ yielded # <<>>
    /\ Last(yielded).IsFinal
    /\ batch # <<>>

\* C8: no entry is sent on the channel after the subscriber's context was cancelled
NoSendAfterCancel == sentAfterCancel = 0

\* C16: Subscribe yields the entries its start id selects: every start id the
\* interface names is accepted ("-" like "0" reads from the beginning); with "$"
\* only entries appended after the subscription started are yielded, with an id
\* only entries whose id is strictly greater, and none of those is left out
StartIDSelects ==
    /\ ~badStartID
    /\ \A i \in 1..Len(YieldedEntries) :
          LET id == YieldedEntries[i].StreamID IN
          IF subStart = Dollar THEN id > lastAtStart
          ELSE IF subStart = Dash THEN id > 0
          ELSE id > subStart
    /\ (spc \in {"check", "xread"} /\ subStart \notin {Dollar, Dash} /\ lastID # subStart) =>
          \A k \in 1..Len(log) :
              (log[k].id > subStart /\ log[k].id <= lastID) =>
                  \E i \in 1..Len(YieldedEntries) : YieldedEntries[i].StreamID = log[k].id

\* C17: after any sequence of publish and publish_completion calls the log holds
\* at most max_len + epsilon entries, and they are the newest ones appended
LogBounded ==
    /\ Len(log) <= MaxLen + Epsilon
    /\ Len(log) <= Len(published)
    /\ \A i \in 1..Len(log) : log[i] = published[Len(published) - Len(log) + i]

\* the log is over max_len by epsilon after entries were trimmed away
LogAtBound ==
    /\ Len(log) = MaxLen + Epsilon
    /\ Len(published) > Len(log)
    /\ Last(log).is_final = "true"

\* C34: with a ttl configured, a progress log that exists carries an expiry
\* after every publish and publish_completion
LogHasTTL == (TTLConfigured /\ log # <<>>) => hasTTL

\* C35: a subscriber started with "$" that has received nothing yet re-polls
\* from the id its earlier read was issued with, so that no entry appended
\* since that read is skipped
DollarRepollKeepsPosition ==
    [][(subStart = Dollar /\ lastID = Dollar /\ readFrom > 0
            /\ spc = "check" /\ spc' = "xread") => readFrom' <= readFrom]_vars

(* ===================== properties under SpecDrain ===================== *)

\* C37: once the subscription's context is cancelled the reader goroutine
\* ends and the subscription channel is closed
CancelClosesChannel == (subCtx = "cancelled") ~> (spc = "closed")

(* ===================== properties under SpecSSE ======================= *)

\* the frames made from log entries
EntryFrames == SelectSeq(frames, LAMBDA f : f.event \in {"history", "progress"})

\* C12: the single-task event stream delivers each log entry once and in log
\* order, whether as a history frame or as a progress frame, and the done frame,
\* if any, is the last frame
StreamDeliversOnce ==
    /\ \A i, j \in 1..Len(EntryFrames) : i < j => EntryFrames[i].id < EntryFrames[j].id
    /\ \A i \in 1..Len(frames) : frames[i].event = "done" => i = Len(frames)

\* C13: a history frame replayed from an is_final entry tells the client the
\* task's terminal status
HistoryCarriesStatus ==
    \A i \in 1..Len(frames) :
        (frames[i].event = "history" /\ published[frames[i].id].is_final = "true") =>
            frames[i].status = published[frames[i].id].status

\* C36: on a stream opened with history=true nothing appended after the
\* history read is lost: while no live entry has been received yet, the live
\* read of a "$" subscription waits for entries after the last one the history
\* read could see
HistoryThenLiveLosesNothing ==
    (includeHistory /\ subStart = Dollar /\ lastID = Dollar /\ spc = "xread") =>
        readFrom <= lastAtStart

(* ==================== properties under SpecMerge ====================== *)

\* a frame that ends one task's part of the merged stream
IsTerminalFrame(f) == f.event = "error" \/ f.is_final
TerminalFramesOf(t) == SelectSeq(mFrames, LAMBDA f : f.task_id = t /\ IsTerminalFrame(f))
TerminalFrames == SelectSeq(mFrames, IsTerminalFrame)

\* C14: the merged stream stays open until every per-task reader has terminated
\* and its last event was written, and closes with the last of them; an error of
\* one reader is written as an error frame tagged with its task id and leaves
\* the stream open for the other ids; nothing of a task follows its is_final
MergedStreamCloses ==
    /\ mPc = "open" =>
          /\ activeTasks > 0
          /\ activeTasks = Cardinality(Readers) - Len(TerminalFrames)
    /\ (mPc = "closed" /\ ~clientGone) =>
          \A r \in Readers : rSpc[r] = "closed" /\ Len(TerminalFramesOf(rTask[r])) = 1
    /\ (mPc # "off" /\ \A r \in Readers : TerminalFramesOf(rTask[r]) # <<>>) => mPc = "closed"
    /\ \A i, j \in 1..Len(mFrames) :
          (i < j /\ IsTerminalFrame(mFrames[i])) => mFrames[j].task_id # mFrames[i].task_id
    /\ \A i \in 1..Len(mFrames) :
          mFrames[i].event = "error" =>
              \E r \in Readers : /\ rTask[r] = mFrames[i].task_id
                                  /\ rYielded[r] # <<>>
                                  /\ Last(rYielded[r]).Error

\* a's is_final, then an entry of b, then b's is_final, which closed the stream
MergedAThenB ==
    /\ mPc = "closed"
    /\ ~clientGone
    /\ Len(mFrames) >= 3
    /\ \E i, j \in 1..Len(mFrames) :
          /\ i < j
          /\ j < Len(mFrames)
          /\ mFrames[i].task_id = "a" /\ mFrames[i].is_final
          /\ mFrames[j].task_id = "b" /\ mFrames[j].event = "progress" /\ ~mFrames[j].is_final
    /\ Last(mFrames).task_id = "b"
    /\ Last(mFrames).is_final

(* ==================== properties under SpecFanout ===================== *)

\* what reader r's consumer has received so far
RReceived(r) == SubSeq(rYielded[r], 1, Len(rYielded[r]) - Len(rCh[r]))
IsPrefix(p, q) == Len(p) <= Len(q) /\ \A i \in 1..Len(p) : p[i] = q[i]
HasError(seq) == \E i \in 1..Len(seq) : seq[i].Error
\* the entries of a log up to its first is_final entry, parsed
RECURSIVE UpToFinal(_)
UpToFinal(seq) ==
    IF seq = <<>> THEN <<>>
    ELSE IF Head(seq).is_final = "true" THEN <<parseMessage(Head(seq))>>
    ELSE <<parseMessage(Head(seq))>> \o UpToFinal(Tail(seq))

UniqueCreateOnce ==
    /\ \A l \in uniqueLocks :
          {t \in brokerTasks : t.key = l.key /\ t.unique > 0 /\ t.id >= l.id}
              = {[id |-> l.id, key |-> l.key, unique |-> 1]}
    /\ (lastResp.op = "create" /\ lastResp.unique > 0
            /\ lastResp.cause \in {NoErr, asynq.ErrDuplicateTask}) =>
          IF lastResp.locked
          THEN lastResp.status = 409 /\ lastResp.code = "TASK_ALREADY_EXISTS"
          ELSE lastResp.status = 201

\* C19: an enqueue that fails with a conflict makes CreateTask return
\* ErrTaskAlreadyExists, reported as 409 TASK_ALREADY_EXISTS; any other enqueue
\* failure is reported as 500 INTERNAL_ERROR
EnqueueErrorTranslated ==
    lastResp.op = "create" =>
        /\ lastResp.cause = asynq.ErrDuplicateTask =>
              /\ errorsIs(lastResp.svcErr, apperrors.ErrTaskAlreadyExists)
              /\ lastResp.status = 409
              /\ lastResp.code = "TASK_ALREADY_EXISTS"
        /\ lastResp.cause = StoreErr =>
              lastResp.status = 500 /\ lastResp.code = "INTERNAL_ERROR"

\* C20: GetTask returns ErrTaskNotFound, reported as 404 TASK_NOT_FOUND, when the
\* broker says the task does not exist; any other broker failure is not turned
\* into not-found and is reported as 500 INTERNAL_ERROR
GetErrorTranslated ==
    lastResp.op = "get" =>
        /\ lastResp.cause = asynq.ErrTaskNotFound =>
              /\ errorsIs(lastResp.svcErr, apperrors.ErrTaskNotFound)
              /\ lastResp.status = 404
              /\ lastResp.code = "TASK_NOT_FOUND"
        /\ lastResp.cause \in {StoreErr, asynq.ErrQueueNotFound} =>
              /\ lastResp.svcErr \notin {SvcErrTaskNotFound, apperrors.ErrTaskNotFound}
              /\ lastResp.status = 500
              /\ lastResp.code = "INTERNAL_ERROR"

\* C21: CancelTask and DeleteTask return ErrTaskNotFound, reported as 404
\* TASK_NOT_FOUND, when the broker says the task does not exist; other failures
\* are reported as 500 CANCEL_FAILED or DELETE_FAILED
CancelDeleteTranslated ==
    lastResp.op \in {"cancel", "delete"} =>
        /\ lastResp.cause = asynq.ErrTaskNotFound =>
              /\ errorsIs(lastResp.svcErr, apperrors.ErrTaskNotFound)
              /\ lastResp.status = 404
              /\ lastResp.code = "TASK_NOT_FOUND"
        /\ lastResp.cause \in {StoreErr, asynq.ErrQueueNotFound} =>
              /\ lastResp.status = 500
              /\ lastResp.code = IF lastResp.op = "cancel" THEN "CANCEL_FAILED"
                                                         ELSE "DELETE_FAILED"

\* C22: CreateTask with a type outside the registered set fails with
\* INVALID_TASK_TYPE, with a registered type and an empty payload it fails with
\* INVALID_PAYLOAD, and in both cases the broker's state is as it was
InvalidCreateRejected ==
    lastResp.op = "create" =>
        /\ ~IsValid(lastResp.type) =>
              /\ lastResp.code = "INVALID_TASK_TYPE"
              /\ lastResp.cause = NotCalled /\ ~lastResp.changed
        /\ (IsValid(lastResp.type) /\ lastResp.payload = 0) =>
              /\ lastResp.code = "INVALID_PAYLOAD"
              /\ lastResp.cause = NotCalled /\ ~lastResp.changed

\* an empty payload was rejected while the broker held a task
EmptyPayloadRejected ==
    /\ lastResp.op = "create"
    /\ IsValid(lastResp.type) /\ lastResp.payload = 0
    /\ lastResp.code = "INVALID_PAYLOAD"
    /\ brokerTasks # {}

(* ==================== properties under SpecEntity ===================== *)

\* C24: in every state of a task retried <= max_retries, whatever operations
\* were applied to it, repeated IncrementRetry included
EntityRetryBound == entity.Retried <= entity.MaxRetries

\* C25: a task in a terminal state never leaves it: no operation changes the
\* status of a task whose status is terminal
TerminalNeverLeft ==
    [][IsTerminal(entity) => entity'.Status = entity.Status]_vars

(* ==================== properties under SpecTimeout ==================== *)

\* C26: the timeout that bounds the remote stream is the payload's timeout_ms
\* when given, otherwise the service's timeout when non-zero, otherwise the
\* global default when non-zero, otherwise 300 s
TimeoutPrecedence ==
    tmo.pc = "open" =>
        tmo.bound = IF tmo.payload # {} THEN (CHOOSE v \in tmo.payload : TRUE) * Millisecond
                    ELSE IF tmo.service # 0 THEN tmo.service
                    ELSE IF tmo.global # 0 THEN tmo.global
                    ELSE 300 * Second

(* ==================== properties under SpecManager ==================== *)

\* C29: no client is ever closed twice; a client that left the manager's map,
\* by RemoveClient or by Close, has been closed exactly once and one still in
\* the map has not been closed, so that once the manager is closed every client
\* it managed has been closed exactly once
ClientsClosedOnce ==
    \A c \in ClientIds :
        /\ mgr.closes[c] <= 1
        /\ (c < mgr.next /\ ~\E e \in mgr.clients : e.id = c) => mgr.closes[c] = 1
        /\ (\E e \in mgr.clients : e.id = c) => mgr.closes[c] = 0

\* the manager was closed after a removal: every client it made is closed
ClosedAfterRemove ==
    /\ mgr.built
    /\ mgr.clients = {}
    /\ mgr.next > MaxClients
    /\ \A c \in ClientIds : mgr.closes[c] = 1

(* =================== properties under SpecMiddleware ================== *)

\* C30: a panic raised while a task is handled under the middleware chain never
\* ends the worker, and the attempt it was raised in ends with the task
\* archived, not retried
PanicRecovered ==
    /\ ~mw.crashed
    /\ (mw.panicked /\ mw.task # "active") => mw.task = "archived"

\* C31: what TimeoutMiddleware returns is the handler's own result when the
\* handler returned before the timeout expired, and the timeout error when
\* it had not returned by then
TimeoutOrResult ==
    mw.tmoRet # "none" =>
        IF mw.early # "none" THEN mw.tmoRet = mw.early ELSE mw.tmoRet = "deadline"

\* the handler bodies executing now: the one TimeoutMiddleware waits for and
\* the ones it stopped waiting for
RunningBodies == (IF mw.running THEN 1 ELSE 0) + mw.leaked

\* C38: with one worker (concurrency 1) at most one handler body is running at
\* any moment: a handler whose attempt ended with the timeout error is not
\* still running when the retry runs
SingleExecution == RunningBodies <= 1

(* ==================== properties under SpecRegistry =================== *)

\* C32: a HasHandler or Get made after the registrations so far succeeds
\* exactly for a registered type, Get returns the handler registered last for
\* it, and Types() lists each registered type exactly once and nothing else
RegistryExact ==
    /\ reg.has.at = reg.next => (reg.has.ok <=> reg.latest[reg.has.type] # 0)
    /\ reg.got.at = reg.next =>
            /\ reg.got.ok <=> reg.latest[reg.got.type] # 0
            /\ reg.got.h = reg.latest[reg.got.type]
    /\ reg.types.at = reg.next =>
            \A t \in RegTypes :
                Cardinality({i \in 1..Len(reg.types.val) : reg.types.val[i] = t})
                    = IF reg.latest[t] # 0 THEN 1 ELSE 0

\* a type was registered twice and another once; Types() then listed both and
\* Get returned the second handler of the first
ReRegisteredListedOnce ==
    /\ reg.types.at = reg.next
    /\ Len(reg.types.val) = 2
    /\ reg.next = MaxRegisters + 1
    /\ reg.got.at = reg.next
    /\ reg.got.ok
    /\ reg.got.h > 1
    /\ \E e \in reg.handlers : e.h = 1

(* ===================== properties under SpecDeploy ==================== *)

\* C39: while the server serves, every enqueued task is of a type the server
\* has a handler for, and no task was ever taken that no handler could process
AcceptedTypesHandled ==
    /\ dep.notFound = {}
    /\ dep.pc = "serving" => \A t \in dep.pending : t.type \in dep.mux

\* C40: every task the service enqueued is on one of the configured queues
EnqueuedOnServedQueue ==
    \A t \in dep.pending \cup dep.done \cup dep.notFound : t.queue \in ConfiguredQueues

====
